---- MODULE Spec2Model ----
(***************************************************************************)
(* Model of the Microsoft Teams JSON ingest module                         *)
(* (src/teamsartifacts/teamsartifacts.py, class TeamsReplychainJSONParser). *)
(*                                                                         *)
(* The pipeline driver (process / _process_files_in_sequence / _parse_json) *)
(* is a state machine that steps once per loop iteration of the code; the  *)
(* entity builders are functions that return the artifacts they index and  *)
(* whether they left by an exception.  A definition F[x \in Any] is a       *)
(* function of every value: its arguments are evaluated once, at the call. *)
(* UnitSpec calls single helpers of the class on arguments of their own.   *)
(* ExtractSpec is the two scans of replychains_extraction                  *)
(* (src/data-extraction/replychains-extraction.py) over LevelDB files.     *)
(* Numbers beyond the 32-bit range are carried by sign and magnitude       *)
(* (Wide), so that millisecond timestamps keep their value.                *)
(*                                                                         *)
(* A Python class body binds a method name to its LAST definition, so the  *)
(* builders below follow the last definition of every method that the      *)
(* source defines more than once (_get_contact_name_by_id,                 *)
(* _add_call_log_attributes, _extract_call_recording_attributes,           *)
(* _extract_meeting_attributes).                                           *)
(***************************************************************************)
EXTENDS Integers, Sequences, FiniteSets, TLC

(***************************************************************************)
(* Python / JSON values.  Every value carries its type tag, so that the    *)
(* isinstance tests, truthiness tests and attribute errors of the code can *)
(* be computed.  A dict is a function from key strings to values.          *)
(***************************************************************************)
Null == [t |-> "null"]

Str(s) == [t |-> "str", s |-> s]

Num(n) == [t |-> "num", n |-> n]

\* A number beyond the 32-bit range, by sign and magnitude: the magnitude is
\* hi * 100000 + lo with lo in 0..99999.  Numbers of the 32-bit range are
\* always carried as Num.
Wide(neg, hi, lo) == [t |-> "wide", neg |-> neg, hi |-> hi, lo |-> lo]

Obj(f) == [t |-> "obj", o |-> f]

List(q) == [t |-> "list", l |-> q]

EmptyStr == Str("")

EmptyObj == Obj(<<>>)

EmptyList == List(<<>>)

\* Python truthiness ("if x:", "not x", "x or y").
Truthy[v \in Any] ==
    CASE v.t = "null" -> FALSE
      [] v.t = "str"  -> v.s # ""
      [] v.t = "num"  -> v.n # 0
      [] v.t = "wide" -> v.hi # 0 \/ v.lo # 0
      [] v.t = "obj"  -> DOMAIN v.o # {}
      [] v.t = "list" -> Len(v.l) > 0

IsDict(v) == v.t = "obj"

IsList(v) == v.t = "list"

IsString(v) == v.t = "str"

\* d.get(k, dflt) on a dict d (the caller has established that d is a dict).
Get[d, k, dflt \in Any] == IF k \in DOMAIN d.o THEN d.o[k] ELSE dflt

\* "k in d" on a dict d.
Has(d, k) == k \in DOMAIN d.o

\* the decimal text of a wide number
WideText[w \in Any] ==
    LET low == ToString(w.lo)
        fill == SubSeq("0000", 1, 5 - Len(low))
    IN  (IF w.neg THEN "-" ELSE "")
        \o (IF w.hi = 0 THEN low ELSE ToString(w.hi) \o fill \o low)

\* str(v) / unicode(v) of a scalar; containers print as their repr, which
\* the model keeps as an opaque text.
PyStr[v \in Any] ==
    CASE v.t = "null" -> "None"
      [] v.t = "str"  -> v.s
      [] v.t = "num"  -> ToString(v.n)
      [] v.t = "wide" -> WideText[v]
      [] v.t = "obj"  -> "<dict>"
      [] v.t = "list" -> "<list>"

\* the one element of a singleton set
Only(S) == CHOOSE x \in S : TRUE

IsSpace[c \in STRING] == c \in {" ", "\t", "\n", "\r"}

LStrip[s \in STRING] ==
    LET kept == {k \in 1..Len(s) : ~IsSpace[SubSeq(s, k, k)]}
    IN  IF kept = {} THEN ""
        ELSE SubSeq(s, CHOOSE k \in kept : \A j \in kept : k <= j, Len(s))

RStrip[s \in STRING] ==
    LET kept == {k \in 1..Len(s) : ~IsSpace[SubSeq(s, k, k)]}
    IN  IF kept = {} THEN ""
        ELSE SubSeq(s, 1, CHOOSE k \in kept : \A j \in kept : j <= k)

\* s.strip()
Strip[s \in STRING] == LStrip[RStrip[s]]

\* s.endswith(suffix)
EndsWith[s \in STRING, suffix \in STRING] ==
    /\ Len(s) >= Len(suffix)
    /\ SubSeq(s, Len(s) - Len(suffix) + 1, Len(s)) = suffix


\* "sub in s" on strings
Contains[s \in STRING, sub \in STRING] ==
    \E i \in 1..(Len(s) - Len(sub) + 1) : SubSeq(s, i, i + Len(sub) - 1) = sub

\* s.replace(old, new), old non-empty
ReplaceAll[s \in STRING, old \in STRING, new \in STRING] ==
    LET found == {i \in 1..(Len(s) - Len(old) + 1) : SubSeq(s, i, i + Len(old) - 1) = old}
    IN  IF found = {} THEN s
        ELSE LET i == CHOOSE j \in found : \A k \in found : j <= k
             IN  SubSeq(s, 1, i - 1) \o new
                 \o ReplaceAll[SubSeq(s, i + Len(old), Len(s)), old, new]

Digits == <<"0", "1", "2", "3", "4", "5", "6", "7", "8", "9">>

IsDigit[c \in STRING] == \E i \in 1..10 : Digits[i] = c

DigitVal[c \in STRING] == (CHOOSE i \in 1..10 : Digits[i] = c) - 1

IsDigits[s \in STRING] == Len(s) > 0 /\ \A i \in 1..Len(s) : IsDigit[SubSeq(s, i, i)]

ParseInt[s \in STRING] ==
    IF Len(s) = 0 THEN 0
    ELSE 10 * ParseInt[SubSeq(s, 1, Len(s) - 1)] + DigitVal[SubSeq(s, Len(s), Len(s))]

\* "{:02d}".format(n)
Pad2[n \in Int] == IF n < 10 THEN "0" \o ToString(n) ELSE ToString(n)

Pad4[n \in Int] ==
    IF n < 10 THEN "000" \o ToString(n)
    ELSE IF n < 100 THEN "00" \o ToString(n)
    ELSE IF n < 1000 THEN "0" \o ToString(n)
    ELSE ToString(n)

(***************************************************************************)
(* Utility methods                                                         *)
(***************************************************************************)

\* _safe_string_extract(val)
SafeStringExtract[val \in Any] ==
    CASE val.t = "null" -> EmptyStr
      [] val.t = "str"  -> Str(Strip[val.s])
      [] val.t = "obj"  -> EmptyStr
      [] OTHER          -> Str(PyStr[val])

\* _safe_unicode(val)
SafeUnicode[val \in Any] ==
    CASE val.t = "null" -> EmptyStr
      [] val.t = "str"  -> val
      [] OTHER          -> Str(PyStr[val])

\* calendar.timegm of a civil date and time (days_from_civil), years >= 1970
DaysFromCivil[y \in Int, m \in Int, d \in Int] ==
    LET yy  == IF m <= 2 THEN y - 1 ELSE y
        era == yy \div 400
        yoe == yy - era * 400
        mp  == IF m > 2 THEN m - 3 ELSE m + 9
        doy == (153 * mp + 2) \div 5 + d - 1
        doe == yoe * 365 + yoe \div 4 - yoe \div 100 + doy
    IN  era * 146097 + doe - 719468

DaysInMonth[y \in Int, m \in Int] ==
    IF m = 2
    THEN (IF (y % 4 = 0 /\ y % 100 # 0) \/ y % 400 = 0 THEN 29 ELSE 28)
    ELSE IF m \in {4, 6, 9, 11} THEN 30 ELSE 31

\* datetime.strptime(text, "%Y-%m-%dT%H:%M:%S") followed by calendar.timegm:
\* [ok |-> FALSE] when strptime raises.  Fields are taken at their two-digit
\* positions (strptime also accepts one-digit fields, which the inputs of
\* this model do not use).
StrptimeSeconds[text \in STRING] ==
    IF /\ Len(text) = 19
       /\ IsDigits[SubSeq(text, 1, 4)] /\ SubSeq(text, 5, 5) = "-"
       /\ IsDigits[SubSeq(text, 6, 7)] /\ SubSeq(text, 8, 8) = "-"
       /\ IsDigits[SubSeq(text, 9, 10)] /\ SubSeq(text, 11, 11) = "T"
       /\ IsDigits[SubSeq(text, 12, 13)] /\ SubSeq(text, 14, 14) = ":"
       /\ IsDigits[SubSeq(text, 15, 16)] /\ SubSeq(text, 17, 17) = ":"
       /\ IsDigits[SubSeq(text, 18, 19)]
    THEN LET y  == ParseInt[SubSeq(text, 1, 4)]
             mo == ParseInt[SubSeq(text, 6, 7)]
             d  == ParseInt[SubSeq(text, 9, 10)]
             h  == ParseInt[SubSeq(text, 12, 13)]
             mi == ParseInt[SubSeq(text, 15, 16)]
             sc == ParseInt[SubSeq(text, 18, 19)]
         IN  IF /\ y >= 1 /\ mo \in 1..12 /\ d >= 1 /\ d <= DaysInMonth[y, mo]
                /\ h <= 23 /\ mi <= 59 /\ sc <= 61
             THEN [ok |-> TRUE,
                   secs |-> DaysFromCivil[y, mo, d] * 86400 + h * 3600 + mi * 60 + sc,
                   y |-> y, mo |-> mo, d |-> d, h |-> h, mi |-> mi, sc |-> sc]
             ELSE [ok |-> FALSE]
    ELSE [ok |-> FALSE]

\* datetime.strptime(text, "%Y-%m-%dT%H:%M:%S.%f"): the same with a fraction of
\* one to six digits, which timegm and strftime drop.
StrptimeFracSeconds[text \in STRING] ==
    IF /\ Len(text) >= 21 /\ Len(text) <= 26
       /\ SubSeq(text, 20, 20) = "."
       /\ IsDigits[SubSeq(text, 21, Len(text))]
    THEN StrptimeSeconds[SubSeq(text, 1, 19)]
    ELSE [ok |-> FALSE]

\* s.rstrip("Z")
RStripZ[s \in STRING] ==
    IF Len(s) > 0 /\ SubSeq(s, Len(s), Len(s)) = "Z"
    THEN RStripZ[SubSeq(s, 1, Len(s) - 1)] ELSE s

\* s[:n]
Prefix[s \in STRING, n \in Int] == IF Len(s) <= n THEN s ELSE SubSeq(s, 1, n)

\* s.replace("T", " ")
ReplaceTWithSpace[s \in STRING] == ReplaceAll[s, "T", " "]

\* the test that sends a value down the ISO-8601 branch
LooksIso[val \in Any] ==
    /\ val.t = "str"
    /\ Contains[val.s, "T"]
    /\ (Contains[val.s, "-"] \/ Contains[val.s, ":"])

\* an integer of the 32-bit range by sign and magnitude
Widen[n \in Int] ==
    LET m == IF n < 0 THEN 0 - n ELSE n IN Wide(n < 0, m \div 100000, m % 100000)

\* a number computed by sign and magnitude, as the value that carries it
FromWide[w \in Any] ==
    IF w.hi <= 21473 THEN Num((IF w.neg THEN -1 ELSE 1) * (w.hi * 100000 + w.lo)) ELSE w

\* a number by sign and magnitude
AsWide[v \in Any] == IF v.t = "num" THEN Widen[v.n] ELSE v

\* quotient (truncated towards zero) and remainder of the magnitude of w by a
\* divisor k of at most 21474
WideDivMod[w \in Any, k \in Int] ==
    LET low == (w.hi % k) * 100000 + w.lo
    IN  [q |-> Wide(w.neg, w.hi \div k, low \div k), r |-> low % k]

\* a - b
WideSub[a \in Any, b \in Any] ==
    LET less == a.hi < b.hi \/ (a.hi = b.hi /\ a.lo < b.lo)
        minus(x, y, neg) == IF x.lo < y.lo THEN Wide(neg, x.hi - y.hi - 1, x.lo + 100000 - y.lo)
                            ELSE Wide(neg, x.hi - y.hi, x.lo - y.lo)
    IN  IF a.neg # b.neg
        THEN Wide(a.neg, a.hi + b.hi + (a.lo + b.lo) \div 100000, (a.lo + b.lo) % 100000)
        ELSE IF less THEN minus(b, a, ~a.neg) ELSE minus(a, b, a.neg)

\* w >= 0
WideNonNegative(w) == ~w.neg \/ (w.hi = 0 /\ w.lo = 0)

\* a decimal numeral with an optional minus sign
IsNumeral[s \in STRING] ==
    IF Len(s) > 0 /\ SubSeq(s, 1, 1) = "-" THEN IsDigits[SubSeq(s, 2, Len(s))] ELSE IsDigits[s]

\* the number a numeral of at most 14 digits denotes
ParseWide[s \in STRING] ==
    LET neg == SubSeq(s, 1, 1) = "-"
        d == IF neg THEN SubSeq(s, 2, Len(s)) ELSE s
    IN  IF Len(d) <= 5 THEN Wide(neg, 0, ParseInt[d])
        ELSE Wide(neg, ParseInt[SubSeq(d, 1, Len(d) - 5)], ParseInt[SubSeq(d, Len(d) - 4, Len(d))])

\* "if v > 9999999999:" (9999999999 is 99999 * 100000 + 99999)
LooksLikeMillis(v) == ~v.neg /\ v.hi > 99999

\* float(val): [ok |-> FALSE] when it raises (TypeError, ValueError).  Numeric
\* texts are decimal numerals with an optional minus sign.
ToFloat[val \in Any] ==
    CASE val.t = "num" -> [ok |-> TRUE, v |-> Widen[val.n]]
      [] val.t = "wide" -> [ok |-> TRUE, v |-> val]
      [] val.t = "str" /\ IsNumeral[Strip[val.s]] -> [ok |-> TRUE, v |-> ParseWide[Strip[val.s]]]
      [] OTHER -> [ok |-> FALSE]

\* int(v) after "if v > 9999999999: v = v / 1000.0"
NumericSeconds[v \in Any] == IF LooksLikeMillis(v) THEN WideDivMod[v, 1000].q ELSE v

\* datetime.utcfromtimestamp(secs).strftime("%Y-%m-%d %H:%M:%S"), secs >= 0
FormatUtc[secs \in Any] ==
    LET hundreds == WideDivMod[secs, 100]
        d864 == WideDivMod[hundreds.q, 864]
        days == d864.q.hi * 100000 + d864.q.lo
        rem  == d864.r * 100 + hundreds.r
        z    == days + 719468
        era  == z \div 146097
        doe  == z - era * 146097
        yoe  == (doe - doe \div 1460 + doe \div 36524 - doe \div 146096) \div 365
        doy  == doe - (365 * yoe + yoe \div 4 - yoe \div 100)
        mp   == (5 * doy + 2) \div 153
        d    == doy - (153 * mp + 2) \div 5 + 1
        m    == IF mp < 10 THEN mp + 3 ELSE mp - 9
        y    == yoe + era * 400 + (IF m <= 2 THEN 1 ELSE 0)
    IN  Pad4[y] \o "-" \o Pad2[m] \o "-" \o Pad2[d] \o " "
        \o Pad2[rem \div 3600] \o ":" \o Pad2[(rem % 3600) \div 60] \o ":" \o Pad2[rem % 60]

\* _convert_timestamp(val, for_datetime_attr=True): epoch seconds or None
ConvertTimestampEpoch[val \in Any] ==
    IF ~Truthy[val] THEN Null
    ELSE IF LooksIso[val]
    THEN LET clean == RStripZ[val.s]
             p == IF Contains[clean, "."] THEN StrptimeFracSeconds[Prefix[clean, 26]]
                  ELSE StrptimeSeconds[Prefix[clean, 19]]
         IN  IF p.ok THEN Num(p.secs) ELSE Null
    ELSE LET f == ToFloat[val]
         IN  IF f.ok THEN FromWide[NumericSeconds[f.v]] ELSE Null

\* _convert_timestamp(val, for_datetime_attr=False): display text
ConvertTimestampDisplay[val \in Any] ==
    IF ~Truthy[val] THEN EmptyStr
    ELSE IF LooksIso[val]
    THEN LET clean == RStripZ[val.s]
             p == IF Contains[clean, "."] THEN StrptimeFracSeconds[Prefix[clean, 26]]
                  ELSE StrptimeSeconds[Prefix[clean, 19]]
         IN  IF p.ok
             THEN Str(Pad4[p.y] \o "-" \o Pad2[p.mo] \o "-" \o Pad2[p.d] \o " "
                      \o Pad2[p.h] \o ":" \o Pad2[p.mi] \o ":" \o Pad2[p.sc])
             ELSE Str(ReplaceTWithSpace[Prefix[clean, 19]])
    ELSE LET f == ToFloat[val]
         IN  IF f.ok /\ WideNonNegative(f.v) THEN Str(FormatUtc[NumericSeconds[f.v]])
             ELSE Str(PyStr[val])


\* sep.join(parts) for a sequence of texts
Join[sep \in STRING, parts \in Seq(STRING)] ==
    IF Len(parts) = 0 THEN ""
    ELSE IF Len(parts) = 1 THEN parts[1]
    ELSE parts[1] \o sep \o Join[sep, Tail(parts)]

UpperLetters == "ABCDEFGHIJKLMNOPQRSTUVWXYZ"

LowerLetters == "abcdefghijklmnopqrstuvwxyz"

LowerChar[c \in STRING] ==
    IF \E i \in 1..26 : SubSeq(UpperLetters, i, i) = c
    THEN LET i == CHOOSE j \in 1..26 : SubSeq(UpperLetters, j, j) = c
         IN  SubSeq(LowerLetters, i, i)
    ELSE c

\* s.lower()
Lower[s \in STRING] ==
    IF Len(s) <= 1 THEN LowerChar[s]
    ELSE Lower[SubSeq(s, 1, Len(s) \div 2)] \o Lower[SubSeq(s, Len(s) \div 2 + 1, Len(s))]

\* The keys of a dict in the order an iteration visits them.  Python 2 leaves
\* the order of a dict unspecified; the model fixes one order per key set.
KeyOrder[K \in SUBSET STRING] ==
    IF K = {} THEN <<>>
    ELSE LET k == CHOOSE x \in K : TRUE IN <<k>> \o KeyOrder[K \ {k}]

\* json.dumps(v, ensure_ascii=False, separators=(',', ':'))
Dumps[v \in Any] ==
    CASE v.t = "null" -> "null"
      [] v.t = "str"  -> "\"" \o ReplaceAll[ReplaceAll[v.s, "\\", "\\\\"], "\"", "\\\""] \o "\""
      [] v.t = "num"  -> ToString(v.n)
      [] v.t = "wide" -> WideText[v]
      [] v.t = "list" -> "[" \o Join[",", [i \in 1..Len(v.l) |-> Dumps[v.l[i]]]] \o "]"
      [] v.t = "obj"  ->
            "{" \o Join[",", [i \in 1..Cardinality(DOMAIN v.o) |->
                                 "\"" \o KeyOrder[DOMAIN v.o][i] \o "\":"
                                 \o Dumps[v.o[KeyOrder[DOMAIN v.o][i]]]]] \o "}"

\* _serialize_properties(properties)
SerializeProperties[properties \in Any] == Str(Dumps[properties])

(***************************************************************************)
(* json.loads on the embedded JSON texts that occur in the inputs of this  *)
(* model: [ok |-> FALSE] when it raises.  Any other text is not JSON.       *)
(***************************************************************************)
CallLogText ==
    "{\"startTime\":\"2023-11-14T22:13:20Z\",\"endTime\":\"2023-11-14T22:14:25Z\",\"callDirection\":\"incoming\",\"originatorParticipant\":{\"id\":\"8:alice\",\"displayName\":\"Alice\"}}"

CallLogValue ==
    Obj([startTime |-> Str("2023-11-14T22:13:20Z"),
         endTime |-> Str("2023-11-14T22:14:25Z"),
         callDirection |-> Str("incoming"),
         originatorParticipant |-> Obj([id |-> Str("8:alice"), displayName |-> Str("Alice")])])

BrokenJsonText == "{\"startTime\": "

ListJsonText == "[]"

NullJsonText == "null"

MentionsText == "[{\"mri\":\"8:bob\",\"mentionType\":\"person\",\"displayName\":\"Bob\"}]"

MentionsValue ==
    List(<<Obj([mri |-> Str("8:bob"), mentionType |-> Str("person"), displayName |-> Str("Bob")])>>)

JsonLoads[text \in STRING] ==
    CASE text = CallLogText  -> [ok |-> TRUE, v |-> CallLogValue]
      [] text = ListJsonText -> [ok |-> TRUE, v |-> EmptyList]
      [] text = NullJsonText -> [ok |-> TRUE, v |-> Null]
      [] text = "{}"         -> [ok |-> TRUE, v |-> EmptyObj]
      [] text = MentionsText -> [ok |-> TRUE, v |-> MentionsValue]
      [] OTHER               -> [ok |-> FALSE]

\* _safe_json_list(value): a sequence of values
SafeJsonList[value \in Any] ==
    IF ~Truthy[value] THEN <<>>
    ELSE IF IsList(value) THEN value.l
    ELSE IF IsString(value)
    THEN LET parsed == JsonLoads[value.s]
         IN  IF parsed.ok /\ IsList(parsed.v) THEN parsed.v.l ELSE <<>>
    ELSE <<>>

(***************************************************************************)
(* Contact directory                                                       *)
(* contacts_map is a function from identifiers (values) to what            *)
(* _process_people stored under them.                                      *)
(***************************************************************************)
Hashable(v) == v.t \notin {"obj", "list"}

\* "a or b"
PyOr[a, b \in Any] == IF Truthy[a] THEN a ELSE b

\* _get_contact_name_by_id(user_id): the definition in force, the last one of
\* the class body.  user_id is hashable.
GetContactNameById[cm, user_id \in Any] ==
    IF ~Truthy[user_id] \/ DOMAIN cm = {} THEN Null
    ELSE IF user_id \in DOMAIN cm /\ Truthy[cm[user_id]] /\ IsDict(cm[user_id])
    THEN PyOr[Get[cm[user_id], "displayName", Null], Get[cm[user_id], "name", Null]]
    ELSE Null

\* _enrich_creator_with_name(creator_id)
EnrichCreatorWithName[cm, creator_id \in Any] ==
    IF ~Truthy[creator_id] THEN creator_id
    ELSE LET contact_name == GetContactNameById[cm, creator_id]
         IN  IF Truthy[contact_name]
             THEN Str(PyStr[creator_id] \o " (" \o PyStr[contact_name] \o ")")
             ELSE creator_id


(***************************************************************************)
(* Artifacts.  An artifact is its type name and the attributes added to    *)
(* it, in order, as <<attribute name, value>> pairs.  A builder returns    *)
(* [raised, arts]: the artifacts it created before it returned or raised.  *)
(***************************************************************************)
Art(kind, attrs) == [kind |-> kind, attrs |-> attrs]

\* one addAttribute call
A(name, value) == <<<<name, value>>>>

\* an addAttribute call under "if cond:"
Opt(cond, name, value) == IF cond THEN <<<<name, value>>>> ELSE <<>>

Done(arts) == [raised |-> FALSE, arts |-> arts]

Raised(arts) == [raised |-> TRUE, arts |-> arts]

\* d.get(key, dflt) on one of the two shared maps
MapGet[m, key, dflt \in Any] == IF key \in DOMAIN m THEN m[key] ELSE dflt

\* m[key] = value
MapPut[m, key, value \in Any] == [k \in DOMAIN m \cup {key} |-> IF k = key THEN value ELSE m[k]]

\* what "for x in v" visits: [ok |-> FALSE] when v is not iterable
IterItems[v \in Any] ==
    CASE v.t = "list" -> [ok |-> TRUE, items |-> v.l]
      [] v.t = "str"  -> [ok |-> TRUE, items |-> [i \in 1..Len(v.s) |-> Str(SubSeq(v.s, i, i))]]
      [] v.t = "obj"  -> LET ks == KeyOrder[DOMAIN v.o]
                         IN  [ok |-> TRUE, items |-> [i \in 1..Len(ks) |-> Str(ks[i])]]
      [] OTHER        -> [ok |-> FALSE, items |-> <<>>]

\* _make_attachment
MakeAttachment[conv_id, msg_id, url, name, ftype, tenant_id \in Any] ==
    Art("TSK_TEAMS_MSG_ATTACHMENT",
        A("TSK_TEAMS_TENANTID", tenant_id)
        \o A("TSK_TEAMS_CONV_ID", conv_id)
        \o A("TSK_TEAMS_MSG_ID", msg_id)
        \o Opt(Truthy[url], "TSK_TEAMS_ATT_URL", url)
        \o A("TSK_TEAMS_ATT_NAME", name)
        \o Opt(Truthy[ftype], "TSK_TEAMS_ATT_TYPE", ftype))

\* _make_mention
MakeMention[conv_id, msg_id, mri, mention_type, display_name, tenant_id \in Any] ==
    Art("TSK_TEAMS_MENTION",
        A("TSK_TEAMS_TENANTID", tenant_id)
        \o A("TSK_TEAMS_MENTION_CONV_ID", conv_id)
        \o A("TSK_TEAMS_MSG_ID", msg_id)
        \o A("TSK_TEAMS_MENTION_MRI", mri)
        \o A("TSK_TEAMS_MENTION_TYPE", mention_type)
        \o A("TSK_TEAMS_MENTION_DISPLAYNAME", display_name))

\* _has_ams_image_content(content)
HasAmsImageContent[content \in STRING] ==
    /\ content # ""
    /\ (Contains[content, "AMSImage"] \/ Contains[Lower[content], "amsimage"])

\* _has_blur_hash(properties)
HasBlurHash[properties \in Any] ==
    /\ IsDict(properties)
    /\ Truthy[Get[properties, "blurHash", Null]]
    /\ Len(SafeJsonList[Get[properties, "blurHash", Null]]) > 0

\* f.get("fileName", f.get("title", ""))
FileName[f \in Any] == Get[f, "fileName", Get[f, "title", EmptyStr]]

\* f.get("fileType", f.get("type", ""))
FileType[f \in Any] == Get[f, "fileType", Get[f, "type", EmptyStr]]

\* _extract_file_names_as_content(files_data): [raised, text]; " | ".join raises
\* on a name that is not a string
ExtractFileNamesAsContent[files_data \in Any] ==
    LET HasName(f) == IsDict(f) /\ Truthy[FileName[f]]
        named == SelectSeq(SafeJsonList[files_data], HasName)
    IN  IF \E i \in 1..Len(named) : ~IsString(FileName[named[i]])
        THEN [raised |-> TRUE, text |-> ""]
        ELSE [raised |-> FALSE,
              text |-> Join[" | ", [i \in 1..Len(named) |-> FileName[named[i]].s]]]

\* _extract_timestamp_from_properties(properties, timestamp_key)
ExtractTimestampFromProperties[properties, timestamp_key \in Any] ==
    IF IsDict(properties) /\ Has(properties, timestamp_key)
    THEN ConvertTimestampEpoch[properties.o[timestamp_key]]
    ELSE Null

\* The mention groups of _extract_props, in the order their identifiers first
\* occur: a sequence of [mri, mentionType, parts].
MentionGroups[mentions, groups \in Any] ==
    IF Len(mentions) = 0 THEN groups
    ELSE LET m == mentions[1]
             mri == Get[m, "mri", EmptyStr]
         IN  IF IsDict(m) /\ Truthy[mri]
             THEN IF \E i \in 1..Len(groups) : groups[i].mri = mri
                  THEN MentionGroups[Tail(mentions),
                         [i \in 1..Len(groups) |->
                            IF groups[i].mri = mri
                            THEN [groups[i] EXCEPT !.parts = @ \o <<Get[m, "displayName", EmptyStr]>>]
                            ELSE groups[i]]]
                  ELSE MentionGroups[Tail(mentions),
                         groups \o <<[mri |-> mri,
                                      mentionType |-> Get[m, "mentionType", EmptyStr],
                                      parts |-> <<Get[m, "displayName", EmptyStr]>>]>>]
             ELSE MentionGroups[Tail(mentions), groups]

\* A variant that leaves the joined name as it is; the mention merging is to
\* fail against it.
KeepSpacing(full_name) == full_name

\* full_name.replace(" ,", ",").replace("( ", "(").replace(" )", ")")
TidyPunctuation(full_name) ==
    ReplaceAll[ReplaceAll[ReplaceAll[full_name, " ,", ","], "( ", "("], " )", ")"]

\* the merged display name of one group
MergedName[group \in Any] ==
    LET NonBlank(part) == Strip[part.s] # ""
        kept == SelectSeq(group.parts, NonBlank)
        full == Join[" ", [i \in 1..Len(kept) |-> Strip[kept[i].s]]]
    IN  TidyPunctuation(full)

\* _extract_props(props): [raised, link_urls, file_min, mention_min].  It raises
\* when a mention identifier is unhashable or a display-name part is not a
\* string (part.strip()).
ExtractProps[props \in Any] ==
    LET links == SafeJsonList[Get[props, "links", Null]]
        files == SafeJsonList[Get[props, "files", Null]]
        mentions == SafeJsonList[Get[props, "mentions", Null]]
        IsLink(l) == IsDict(l) /\ Truthy[Get[l, "url", Null]]
        kept_links == SelectSeq(links, IsLink)
        kept_files == SelectSeq(files, IsDict)
        Mentioning(m) == IsDict(m) /\ Truthy[Get[m, "mri", EmptyStr]]
        mentioning == SelectSeq(mentions, Mentioning)
        bad == \E i \in 1..Len(mentioning) :
                  \/ ~Hashable(Get[mentioning[i], "mri", EmptyStr])
                  \/ ~IsString(Get[mentioning[i], "displayName", EmptyStr])
    IN  IF bad
        THEN [raised |-> TRUE, link_urls |-> <<>>, file_min |-> <<>>, mention_min |-> <<>>]
        ELSE LET groups == MentionGroups[mentions, <<>>]
                 Named(g) == MergedName[g] # ""
                 named == SelectSeq(groups, Named)
             IN  [raised |-> FALSE,
                  link_urls |-> [i \in 1..Len(kept_links) |-> kept_links[i].o["url"]],
                  file_min |-> [i \in 1..Len(kept_files) |->
                                  [fileName |-> FileName[kept_files[i]],
                                   fileType |-> FileType[kept_files[i]]]],
                  mention_min |-> [i \in 1..Len(named) |->
                                  [mri |-> named[i].mri,
                                   mentionType |-> named[i].mentionType,
                                   displayName |-> Str(MergedName[named[i]])]]]


\* re.search(r'<Tag[^>]*attr="([^"]+)"', content): the first group of the
\* leftmost match, [ok |-> FALSE] when there is none.  The tag's run of
\* non-'>' characters is greedy, so within the leftmost tag the LAST
\* attribute occurrence that can match is taken; the group runs to the next
\* double quote.  min_len is 1 for a "+" group and 0 for a "*" group.
At[s \in STRING, i \in Int, lit \in STRING] == i >= 1 /\ i + Len(lit) - 1 <= Len(s) /\ SubSeq(s, i, i + Len(lit) - 1) = lit

NoneBetween[s \in STRING, from \in Int, to \in Int, c \in STRING] == \A k \in from..to : SubSeq(s, k, k) # c

Max[S \in SUBSET Int] == CHOOSE x \in S : \A y \in S : y <= x

Min[S \in SUBSET Int] == CHOOSE x \in S : \A y \in S : x <= y

\* the positions after position p0 where attr="..." can match
AttrPositions[s \in STRING, p0 \in Int, attr \in STRING, min_len \in Int] ==
    {j \in p0..Len(s) :
        /\ At[s, j, attr]
        /\ NoneBetween[s, p0, j - 1, ">"]
        /\ \E e \in (j + Len(attr) + min_len)..Len(s) :
              /\ SubSeq(s, e, e) = "\""
              /\ NoneBetween[s, j + Len(attr), e - 1, "\""]}

\* the group captured at attribute position j
CaptureAt[s \in STRING, j \in Int, attr \in STRING] ==
    LET c == j + Len(attr)
        e == Min[{k \in c..Len(s) : SubSeq(s, k, k) = "\""}]
    IN  SubSeq(s, c, e - 1)

SearchTagAttr[s \in STRING, tag \in STRING, attr \in STRING, min_len \in Int] ==
    LET starts == {i \in 1..Len(s) :
                     At[s, i, tag] /\ AttrPositions[s, i + Len(tag), attr, min_len] # {}}
    IN  IF starts = {} THEN [ok |-> FALSE, text |-> ""]
        ELSE LET i == Min[starts]
                 j == Max[AttrPositions[s, i + Len(tag), attr, min_len]]
             IN  [ok |-> TRUE, text |-> CaptureAt[s, j, attr]]

\* re.search(r'<Tag[^>]*mid[^>]*attr="([^"]+)"', content)
SearchTagMidAttr[s \in STRING, tag \in STRING, mid \in STRING, attr \in STRING] ==
    LET Mids(i) == {m \in (i + Len(tag))..Len(s) :
                      /\ At[s, m, mid]
                      /\ NoneBetween[s, i + Len(tag), m - 1, ">"]
                      /\ AttrPositions[s, m + Len(mid), attr, 1] # {}}
        starts == {i \in 1..Len(s) : At[s, i, tag] /\ Mids(i) # {}}
    IN  IF starts = {} THEN [ok |-> FALSE, text |-> ""]
        ELSE LET i == Min[starts]
                 m == Max[Mids(i)]
                 j == Max[AttrPositions[s, m + Len(mid), attr, 1]]
             IN  [ok |-> TRUE, text |-> CaptureAt[s, j, attr]]

(***************************************************************************)
(* Markup.  The texts of the model are ASCII.                              *)
(***************************************************************************)

\* the first position from i on that holds the character c, 0 when none does
NextOf[s \in STRING, i \in Int, c \in STRING] ==
    LET found == {k \in i..Len(s) : SubSeq(s, k, k) = c}
    IN  IF found = {} THEN 0 ELSE Min[found]

\* where \s* ends when it starts at position i
SkipSpaces[s \in STRING, i \in Int] ==
    Min[{k \in i..(Len(s) + 1) : k > Len(s) \/ ~IsSpace[SubSeq(s, k, k)]}]

\* The ways  <a [^>]*href="([^"]+)"[^>]*>  (re.IGNORECASE) matches at position
\* i of s, one for each  href="  the first run can reach: [j, target, next],
\* next being the position after the ">" of the tag.  low is s in lower case.
OpenAnchorAt[s \in STRING, low \in STRING, i \in Int] ==
    IF ~At[low, i, "<a "] THEN {}
    ELSE {[j |-> j,
           target |-> SubSeq(s, j + 6, NextOf[s, j + 6, "\""] - 1),
           next |-> NextOf[s, NextOf[s, j + 6, "\""] + 1, ">"] + 1] :
            j \in {k \in (i + 3)..Len(s) :
                     /\ At[low, k, "href=\""]
                     /\ NoneBetween[s, i + 3, k - 1, ">"]
                     /\ NextOf[s, k + 6, "\""] > k + 6
                     /\ NextOf[s, NextOf[s, k + 6, "\""] + 1, ">"] > 0}}

\* the same for the tag followed by  [^<]*</a>  (min_label 0) or  [^<]+</a>
\* (min_label 1); next is the position after "</a>"
AnchorAt[s \in STRING, low \in STRING, i \in Int, min_label \in Int] ==
    {[j |-> m.j, target |-> m.target, next |-> NextOf[s, m.next, "<"] + 4] :
        m \in {x \in OpenAnchorAt[s, low, i] :
                 /\ NextOf[s, x.next, "<"] >= x.next + min_label
                 /\ At[low, NextOf[s, x.next, "<"], "</a>"]}}

\* the match a greedy first run settles on: the last  href="  that matches
Greedy(M) == CHOOSE m \in M : \A x \in M : x.j <= m.j

\* re.match of the two "simple link" patterns on html_str.strip(), the
\* paragraph pattern first: [ok, target].  "<p>?" is "<p" with an optional ">".
MatchSimpleLink[html_str \in STRING] ==
    LET s == Strip[html_str]
        low == Lower[s]
        AtEnd(k) == SkipSpaces[s, k] > Len(s)
        ClosesParagraph(k) ==
            LET c == SkipSpaces[s, k]
            IN  At[low, c, "</p"] /\ AtEnd(IF At[s, c + 3, ">"] THEN c + 4 ELSE c + 3)
        start == SkipSpaces[s, IF At[s, 3, ">"] THEN 4 ELSE 3]
        wrapped == IF At[low, 1, "<p"]
                   THEN {m \in AnchorAt[s, low, start, 1] : ClosesParagraph(m.next)}
                   ELSE {}
        bare == {m \in AnchorAt[s, low, 1, 1] : AtEnd(m.next)}
    IN  IF wrapped # {} THEN [ok |-> TRUE, target |-> Greedy(wrapped).target]
        ELSE IF bare # {} THEN [ok |-> TRUE, target |-> Greedy(bare).target]
        ELSE [ok |-> FALSE, target |-> ""]

\* re.findall(r'<a [^>]*href="([^"]+)"[^>]*>', html_str, re.IGNORECASE) from
\* position i on
FindHrefs[s \in STRING, low \in STRING, i \in Int] ==
    LET found == {k \in i..Len(s) : OpenAnchorAt[s, low, k] # {}}
    IN  IF found = {} THEN <<>>
        ELSE <<Greedy(OpenAnchorAt[s, low, Min[found]]).target>>
             \o FindHrefs[s, low, Greedy(OpenAnchorAt[s, low, Min[found]]).next]

\* re.sub(r'<a [^>]*href="([^"]+)"[^>]*>[^<]*</a>', r'\1', html_str, re.IGNORECASE)
\* from position i on
LinksToHref[s \in STRING, low \in STRING, i \in Int] ==
    LET found == {k \in i..Len(s) : AnchorAt[s, low, k, 0] # {}}
    IN  IF found = {} THEN SubSeq(s, i, Len(s))
        ELSE SubSeq(s, i, Min[found] - 1) \o Greedy(AnchorAt[s, low, Min[found], 0]).target
             \o LinksToHref[s, low, Greedy(AnchorAt[s, low, Min[found], 0]).next]

\* re.sub(r"</p\s*>", "\n", s) from position i on
CloseParagraphs[s \in STRING, i \in Int] ==
    LET found == {k \in i..Len(s) : At[s, k, "</p"] /\ At[s, SkipSpaces[s, k + 3], ">"]}
    IN  IF found = {} THEN SubSeq(s, i, Len(s))
        ELSE SubSeq(s, i, Min[found] - 1) \o "\n"
             \o CloseParagraphs[s, SkipSpaces[s, Min[found] + 3] + 1]

\* re.sub(r"<[^>]+>", "", s) from position i on
StripTags[s \in STRING, i \in Int] ==
    LET found == {k \in i..Len(s) : At[s, k, "<"] /\ NextOf[s, k + 1, ">"] > k + 1}
    IN  IF found = {} THEN SubSeq(s, i, Len(s))
        ELSE SubSeq(s, i, Min[found] - 1) \o StripTags[s, NextOf[s, Min[found] + 1, ">"] + 1]

\* _unescape_html(text)
UnescapeHtml[text \in STRING] ==
    ReplaceAll[ReplaceAll[ReplaceAll[ReplaceAll[ReplaceAll[text,
        "&amp;", "&"], "&lt;", "<"], "&gt;", ">"], "&quot;", "\""], "&#39;", "'"]

\* re.sub(r"\\(['\"])", r"\1", s)
DropEscapes[s \in STRING] == ReplaceAll[ReplaceAll[s, "\\'", "'"], "\\\"", "\""]

\* the whitespace clean-up of _process_regular_html and its strip()
CleanWhitespace[s \in STRING] ==
    Strip[ReplaceAll[ReplaceAll[ReplaceAll[ReplaceAll[ReplaceAll[s,
        "&nbsp;", " "], "\\xa0", " "], "\\r\\n", "\n"], "\r\n", "\n"], "\\n", "\n"]]

\* _process_regular_html(html_str)
ProcessRegularHtml[html_str \in STRING] ==
    LET hrefs == FindHrefs[html_str, Lower[html_str], 1]
        links_to_href == LinksToHref[html_str, Lower[html_str], 1]
        broken == ReplaceAll[ReplaceAll[ReplaceAll[links_to_href,
                      "<br>", "\n"], "<br/>", "\n"], "<br />", "\n"]
        no_tags == CleanWhitespace[DropEscapes[DropEscapes[UnescapeHtml[
                       StripTags[CloseParagraphs[broken, 1], 1]]]]]
        hrefs_to_add == SelectSeq(hrefs, LAMBDA h : ~Contains[no_tags, h])
    IN  IF Len(hrefs_to_add) = 0 THEN no_tags
        ELSE IF no_tags # "" THEN no_tags \o "\n" \o Join["\n", hrefs_to_add]
        ELSE Join["\n", hrefs_to_add]

\* bold_unicode(text): every letter and digit c becomes the character of the
\* mathematical bold alphabet, written here as the two characters "~c"; any
\* other character is kept
BoldUnicode[text \in STRING] ==
    IF Len(text) = 0 THEN ""
    ELSE IF Len(text) = 1
    THEN (IF Contains[UpperLetters \o LowerLetters \o "0123456789", text]
          THEN "~" \o text ELSE text)
    ELSE BoldUnicode[SubSeq(text, 1, Len(text) \div 2)]
         \o BoldUnicode[SubSeq(text, Len(text) \div 2 + 1, Len(text))]

NoMatch == [ok |-> FALSE, start |-> 0, end |-> 0, group |-> ""]

\* re.search(r'<blockquote[^>]*?(?:itemscope[^>]*?)?itemtype="http://schema.skype.com/X"
\* [^>]*>([\s\S]*?)</blockquote>', s, re.IGNORECASE) for X = itemtype, given in
\* lower case: the leftmost blockquote tag that holds the itemtype and is
\* closed later on; [ok, start, end, group], end being the position after
\* the match.
BlockquoteSearch[s \in STRING, low \in STRING, itemtype \in STRING] ==
    LET lit == "itemtype=\"http://schema.skype.com/" \o itemtype \o "\""
        K(i) == {k \in (i + 11)..Len(s) : At[low, k, lit] /\ NoneBetween[s, i + 11, k - 1, ">"]}
        G(i) == NextOf[s, Min[K(i)] + Len(lit), ">"]
        C(i) == {c \in (G(i) + 1)..Len(s) : At[low, c, "</blockquote>"]}
        starts == {i \in 1..Len(s) :
                     At[low, i, "<blockquote"] /\ K(i) # {} /\ G(i) > 0 /\ C(i) # {}}
    IN  IF starts = {} THEN NoMatch
        ELSE [ok |-> TRUE, start |-> Min[starts], end |-> Min[C(Min[starts])] + 13,
              group |-> SubSeq(s, G(Min[starts]) + 1, Min[C(Min[starts])] - 1)]

\* how  <strong[^>]*>([^<]+)</strong>  (re.IGNORECASE) matches at position i
StrongAt[s \in STRING, low \in STRING, i \in Int] ==
    LET g == NextOf[s, i + 7, ">"]
        l == NextOf[s, g + 1, "<"]
    IN  IF At[low, i, "<strong"] /\ g > 0 /\ l >= g + 2 /\ At[low, l, "</strong>"]
        THEN [ok |-> TRUE, start |-> i, end |-> l + 9, group |-> SubSeq(s, g + 1, l - 1)]
        ELSE NoMatch

\* re.search(r'<strong[^>]*>([^<]+)</strong>', s, re.IGNORECASE)
SearchStrong[s \in STRING] ==
    LET low == Lower[s]
        starts == {i \in 1..Len(s) : StrongAt[s, low, i].ok}
    IN  IF starts = {} THEN NoMatch ELSE StrongAt[s, low, Min[starts]]

\* re.sub(r'<strong[^>]*>[^<]+</strong>', '', s, flags=re.IGNORECASE) from
\* position i on
DropStrong[s \in STRING, low \in STRING, i \in Int] ==
    LET found == {k \in i..Len(s) : StrongAt[s, low, k].ok}
    IN  IF found = {} THEN SubSeq(s, i, Len(s))
        ELSE SubSeq(s, i, Min[found] - 1) \o DropStrong[s, low, StrongAt[s, low, Min[found]].end]

\* re.search(r'<span[^>]*itemid\s*=\s*"([^"]+)"', s, re.IGNORECASE): the
\* leftmost span tag, and in it the last itemid that matches
SearchSpanItemId[s \in STRING] ==
    LET low == Lower[s]
        Quote(k) == SkipSpaces[s, SkipSpaces[s, k + 6] + 1]
        K(i) == {k \in (i + 5)..Len(s) :
                   /\ At[low, k, "itemid"] /\ NoneBetween[s, i + 5, k - 1, ">"]
                   /\ At[s, SkipSpaces[s, k + 6], "="]
                   /\ At[s, Quote(k), "\""]
                   /\ NextOf[s, Quote(k) + 1, "\""] > Quote(k) + 1}
        starts == {i \in 1..Len(s) : At[low, i, "<span"] /\ K(i) # {}}
    IN  IF starts = {} THEN NoMatch
        ELSE LET k == Max[K(Min[starts])]
             IN  [ok |-> TRUE, start |-> Min[starts],
                  end |-> NextOf[s, Quote(k) + 1, "\""] + 1,
                  group |-> SubSeq(s, Quote(k) + 1, NextOf[s, Quote(k) + 1, "\""] - 1)]

\* The texts the reply branch ("reply") or the forward branch hands to
\* _clean_html again, for the match m of its blockquote in html_str:
\* html_str[:m.start()].strip(), the quoted text (without its <strong>
\* elements in a reply) and html_str[m.end():]
BlockquoteParts[html_str \in STRING, m \in Any, branch \in STRING] ==
    [before |-> Strip[SubSeq(html_str, 1, m.start - 1)],
     quoted |-> IF branch = "reply" THEN DropStrong[m.group, Lower[m.group], 1] ELSE m.group,
     after  |-> SubSeq(html_str, m.end, Len(html_str))]

\* the label of a reply: the sender of the quoted text and, when the quoted
\* participant is in the directory, the name found there
ReplyLabel[quoted_html \in STRING, cm \in Any] ==
    LET sender_match == SearchStrong[quoted_html]
        sender == IF sender_match.ok THEN Strip[sender_match.group] ELSE ""
        span_id_match == SearchSpanItemId[quoted_html]
        contact_name == IF span_id_match.ok
                        THEN GetContactNameById[cm, Str(span_id_match.group)] ELSE Null
    IN  IF sender = "" THEN BoldUnicode["In reply to message"] \o ": "
        ELSE IF Truthy[contact_name]
        THEN BoldUnicode["In reply to " \o sender \o " (" \o PyStr[contact_name] \o "):"] \o " "
        ELSE BoldUnicode["In reply to " \o sender \o ":"] \o " "

\* A variant that writes no line about the original message; the forward
\* reconstruction is to fail against it.
NoOriginalLine(orig_sender, time_str) == ""

\* u"Original: {} {}".format(orig_sender, time_str).strip() + u"\n"
OriginalLine(orig_sender, time_str) ==
    Strip["Original: " \o PyStr[orig_sender] \o " " \o time_str] \o "\n"

\* the "Original: <sender> <time>" line of a forward, with its line break
ForwardInfo[properties \in Any] ==
    LET ctx == Get[properties, "originalMessageContext", Null]
        orig_sender == Get[ctx, "sender", EmptyStr]
        orig_time == Get[ctx, "clientArrivalTime", EmptyStr]
        time_str == IF Truthy[orig_time] THEN ConvertTimestampDisplay[orig_time].s ELSE ""
    IN  IF Truthy[properties] /\ IsDict(properties) /\ Truthy[ctx] /\ IsDict(ctx)
           /\ (Truthy[orig_sender] \/ Truthy[orig_time])
        THEN OriginalLine(orig_sender, time_str)
        ELSE ""

\* A variant that leaves every text to the handling that follows; the
\* single-hyperlink rule is to fail against it.
GenericHandlingOnly(link_match, otherwise) == otherwise

\* "if link_match: return link_match.group(1)", ahead of the blockquote
\* searches and of _process_regular_html
SimpleLinkFirst(link_match, otherwise) ==
    IF link_match.ok THEN link_match.target ELSE otherwise

\* A variant that puts the quoted text and the reply on one line; the reply
\* reconstruction is to fail against it.
ReplyTextOnOneLine(label, quoted, reply) == label \o Strip[quoted] \o " " \o Strip[reply]

\* label + quoted.strip() + u"\n\n" + reply.strip()
ReplyText(label, quoted, reply) == label \o Strip[quoted] \o "\n\n" \o Strip[reply]

\* "if before_blockquote: result = before_clean.strip() + "\n\n" + result"
Prepended(before_blockquote, before_clean, result) ==
    IF before_blockquote # "" THEN Strip[before_clean] \o "\n\n" \o result ELSE result

\* _process_reply_blockquote, given what _clean_html returned for the text
\* before the block (before_clean), for the quoted text without its sender
\* (quoted) and for the text after the block (reply)
ProcessReplyBlockquote(quoted_html, cm, before_blockquote, before_clean, quoted, reply) ==
    Strip[Prepended(before_blockquote, before_clean,
                    ReplyText(ReplyLabel[quoted_html, cm], quoted, reply))]

\* _process_forward_blockquote, given what _clean_html returned for the text
\* before the block, for the quoted text and for the text after the block
ProcessForwardBlockquote(properties, before_blockquote, before_clean, quoted, reply) ==
    Strip[Prepended(before_blockquote, before_clean,
                    ForwardInfo[properties] \o BoldUnicode["Forwarded message:"]
                    \o " " \o Strip[quoted])
          \o (IF Strip[reply] # "" THEN "\n\n" \o Strip[reply] ELSE "")]

\* A variant that looks for the forward block first; the dispatch order is
\* to fail against it.
ForwardBeforeReply(blockquote_reply, blockquote_forward) ==
    IF blockquote_forward.ok THEN "forward"
    ELSE IF blockquote_reply.ok THEN "reply" ELSE "regular"

\* "if blockquote_reply or blockquote_forward: if blockquote_reply: ... elif
\* blockquote_forward: ..." and the generic handling after it
BlockquoteBranch(blockquote_reply, blockquote_forward) ==
    IF blockquote_reply.ok THEN "reply"
    ELSE IF blockquote_forward.ok THEN "forward" ELSE "regular"

\* The block _clean_html goes by, given the two searches: the branch, its
\* match m and the texts before the block, quoted and after it (empty texts
\* when no block matched).
SplitAtBlockquote[html_str \in STRING, blockquote_reply \in Any, blockquote_forward \in Any] ==
    LET branch == BlockquoteBranch(blockquote_reply, blockquote_forward)
        m == IF branch = "reply" THEN blockquote_reply ELSE blockquote_forward
    IN  [branch |-> branch, m |-> m,
         parts |-> IF branch \in {"reply", "forward"}
                   THEN BlockquoteParts[html_str, m, branch]
                   ELSE [before |-> "", quoted |-> "", after |-> ""]]

\* the two blockquote searches of _clean_html and what they lead to
BlockquoteSplit[html_str \in STRING] ==
    SplitAtBlockquote[html_str, BlockquoteSearch[html_str, Lower[html_str], "reply"],
                      BlockquoteSearch[html_str, Lower[html_str], "forward"]]

\* The branch of _clean_html after the single-hyperlink test, given what
\* _clean_html returned for the text before the block (before_clean), for
\* the quoted text (quoted) and for the text after the block (reply).
RenderBranch[html_str, properties, cm, split, before_clean, quoted, reply \in Any] ==
    CASE split.branch = "reply" ->
             ProcessReplyBlockquote(split.m.group, cm, split.parts.before, before_clean,
                                    quoted, reply)
      [] split.branch = "forward" ->
             ProcessForwardBlockquote(properties, split.parts.before, before_clean,
                                      quoted, reply)
      [] OTHER -> ProcessRegularHtml[html_str]

\* _clean_html(html_str, properties), with _process_reply_blockquote and
\* _process_forward_blockquote, which call it again; cm is contacts_map.
\* The three calls on the parts of a block return "" for the empty parts of
\* a text without a block.
CleanHtml[html_str \in STRING, properties \in Any, cm \in Any] ==
    IF html_str = "" THEN ""
    ELSE SimpleLinkFirst(MatchSimpleLink[html_str],
                         RenderBranch[html_str, properties, cm, BlockquoteSplit[html_str],
                                      CleanHtml[BlockquoteSplit[html_str].parts.before, Null, cm],
                                      CleanHtml[BlockquoteSplit[html_str].parts.quoted, Null, cm],
                                      CleanHtml[BlockquoteSplit[html_str].parts.after, Null, cm]])

\* A variant that hands the whole text to _clean_html once more; the descent
\* of the recursion is to fail against it.
NestedCallsWithCaller(html_str) == {html_str}

\* The texts that _clean_html(html_str) hands to _clean_html: none for the
\* empty text, a single hyperlink or a text without a block; otherwise the
\* quoted text, the text after the block and, when it is not empty, the
\* stripped text before the block.
NestedCalls(html_str) ==
    LET low == Lower[html_str]
        blockquote_reply == BlockquoteSearch[html_str, low, "reply"]
        blockquote_forward == BlockquoteSearch[html_str, low, "forward"]
        branch == BlockquoteBranch(blockquote_reply, blockquote_forward)
        parts == BlockquoteParts[html_str,
                                 IF branch = "reply" THEN blockquote_reply
                                 ELSE blockquote_forward, branch]
    IN  IF html_str = "" \/ MatchSimpleLink[html_str].ok \/ branch = "regular" THEN {}
        ELSE {parts.quoted, parts.after} \cup (IF parts.before # "" THEN {parts.before} ELSE {})


(***************************************************************************)
(* Call duration and participants                                          *)
(***************************************************************************)

\* parse_timestamp_to_seconds(timestamp): [raised, v]; v is None when strptime
\* fails, and float() raises on what is not a number
ParseTimestampToSeconds[timestamp \in Any] ==
    IF LooksIso[timestamp]
    THEN LET clean == RStripZ[timestamp.s]
             p == IF Contains[clean, "."] THEN StrptimeFracSeconds[Prefix[clean, 26]]
                  ELSE StrptimeSeconds[Prefix[clean, 19]]
         IN  [raised |-> FALSE, v |-> IF p.ok THEN Num(p.secs) ELSE Null]
    ELSE LET f == ToFloat[timestamp]
         IN  IF f.ok THEN [raised |-> FALSE, v |-> FromWide[NumericSeconds[f.v]]]
             ELSE [raised |-> TRUE, v |-> Null]

\* _calculate_call_duration(start_time, end_time): "HH:MM:SS" or None
CalculateCallDuration[start_time, end_time \in Any] ==
    LET st == ParseTimestampToSeconds[start_time]
        en == ParseTimestampToSeconds[end_time]
    IN  IF st.raised \/ en.raised THEN Null
        ELSE IF Truthy[st.v] /\ Truthy[en.v]
        THEN LET duration_seconds == WideSub[AsWide[en.v], AsWide[st.v]]
                 h == WideDivMod[duration_seconds, 3600]
                 hours == IF h.q.hi = 0 THEN Pad2[h.q.lo] ELSE WideText[h.q]
             IN  IF WideNonNegative(duration_seconds)
                 THEN Str(hours \o ":" \o Pad2[h.r \div 60] \o ":" \o Pad2[h.r % 60])
                 ELSE Null
        ELSE Null

\* _format_participant_info(participant); identifiers are hashable
FormatParticipantInfo[cm, participant \in Any] ==
    IF ~IsDict(participant)
    THEN (IF Truthy[participant] THEN Str(PyStr[participant]) ELSE EmptyStr)
    ELSE LET participant_id == Get[participant, "id", EmptyStr]
             display_name == Get[participant, "displayName", EmptyStr]
         IN  IF Truthy[participant_id]
             THEN IF Truthy[display_name] /\ display_name # participant_id
                  THEN Str(PyStr[EnrichCreatorWithName[cm, participant_id]]
                           \o " [" \o PyStr[display_name] \o "]")
                  ELSE EnrichCreatorWithName[cm, participant_id]
             ELSE (IF Truthy[display_name] THEN display_name ELSE EmptyStr)

\* _format_participants_list(participants)
FormatParticipantsList[cm, participants \in Any] ==
    IF ~Truthy[participants] THEN EmptyStr
    ELSE IF IsList(participants)
    THEN LET all == [i \in 1..Len(participants.l) |->
                        FormatParticipantInfo[cm, participants.l[i]]]
             kept == SelectSeq(all, LAMBDA x : Truthy[x])
         IN  Str(Join["; ", [i \in 1..Len(kept) |-> PyStr[kept[i]]]])
    ELSE Str(PyStr[participants])

\* the first truthy of id, mri, participantId
ParticipantId[participant \in Any] ==
    PyOr[Get[participant, "id", Null],
         PyOr[Get[participant, "mri", Null], Get[participant, "participantId", Null]]]

\* one element of the list handled by _enrich_participants_with_names
EnrichParticipant[cm, participant \in Any] ==
    IF IsDict(participant)
    THEN LET name == GetContactNameById[cm, ParticipantId[participant]]
         IN  IF Truthy[ParticipantId[participant]] /\ Truthy[name]
             THEN Obj([k \in DOMAIN participant.o \cup {"enriched_name"} |->
                         IF k = "enriched_name" THEN name ELSE participant.o[k]])
             ELSE participant
    ELSE IF IsString(participant)
    THEN LET name == GetContactNameById[cm, participant]
         IN  IF Truthy[name]
             THEN Str(participant.s \o " (" \o PyStr[name] \o ")")
             ELSE participant
    ELSE participant

IdLikeKey[key \in Any] ==
    \E id_key \in {"id", "participant", "user", "mri"} : Contains[Lower[key], id_key]

\* _enrich_participants_with_names(participants_data); a lookup that raises
\* (an unhashable value) is caught and the data returned as it came
EnrichParticipantsWithNames[cm, participants_data \in Any] ==
    IF ~Truthy[participants_data] \/ DOMAIN cm = {} THEN participants_data
    ELSE IF IsList(participants_data)
    THEN List([i \in 1..Len(participants_data.l) |->
                 EnrichParticipant[cm, participants_data.l[i]]])
    ELSE IF IsDict(participants_data)
    THEN LET d == participants_data.o
             ids == {k \in DOMAIN d : IdLikeKey[k]}
         IN  IF \E k \in ids : Truthy[d[k]] /\ ~Hashable(d[k])
             THEN participants_data
             ELSE LET found == {k \in ids : Truthy[GetContactNameById[cm, d[k]]]}
                      added == {k \o "_enriched_name" : k \in found}
                  IN  Obj([k \in DOMAIN d \cup added |->
                             IF k \in DOMAIN d /\ k \notin added THEN d[k]
                             ELSE GetContactNameById[cm,
                                    d[CHOOSE b \in found : b \o "_enriched_name" = k]]])
    ELSE participants_data


\* A variant that finds no tenant for any conversation; the tenant propagation
\* is to fail against it.
NoTenant(tm, conversation_id) == EmptyStr

\* "tenant_id = self.conversation_tenant_map.get(conversation_id, "")"
TenantOf(tm, conversation_id) == MapGet[tm, conversation_id, EmptyStr]


(***************************************************************************)
(* Entity builders for message-like records.  cm is contacts_map and tm is *)
(* conversation_tenant_map at the moment of the call.                      *)
(***************************************************************************)

\* "content = self._safe_unicode(content)" and "if msg_type == "RichText/Html":
\* content = self._clean_html(content, properties)"
CleanedContent[msg, cm \in Any] ==
    IF SafeUnicode[Get[msg, "messageType", Null]] = Str("RichText/Html")
    THEN Str(CleanHtml[SafeUnicode[Get[msg, "content", EmptyStr]].s,
                       Get[msg, "properties", EmptyObj], cm])
    ELSE SafeUnicode[Get[msg, "content", EmptyStr]]

\* _process_regular_message(msg, conversation_id, ...) from the point where
\* the content has been cleaned (cleaned): msg is a dict
RegularMessage[msg, conversation_id, cm, tm, cleaned \in Any] ==
    LET seq_id == Get[msg, "sequenceId", Null]
        msg_id == SafeUnicode[Get[msg, "id", Null]]
        creator == SafeUnicode[Get[msg, "creator", Null]]
        display_name == SafeUnicode[Get[msg, "imDisplayName", Null]]
        msg_type == SafeUnicode[Get[msg, "messageType", Null]]
        orig_arrival == Get[msg, "originalArrivalTime", Null]
        properties == Get[msg, "properties", EmptyObj]
        tenant_id == TenantOf(tm, conversation_id)
        html == msg_type = Str("RichText/Html")
        ams == IF html /\ HasAmsImageContent[cleaned.s]
               THEN <<MakeAttachment[conversation_id, msg_id, EmptyStr,
                                     Str("AMSImage"), Str("image"), tenant_id]>>
               ELSE <<>>
        from_files == ~Truthy[cleaned] /\ IsDict(properties) /\ Has(properties, "files")
        names == ExtractFileNamesAsContent[properties.o["files"]]
        content == IF from_files THEN Str(names.text) ELSE cleaned
        props == ExtractProps[IF IsDict(properties) THEN properties ELSE EmptyObj]
        has_attachment ==
            IF Len(props.link_urls) > 0 \/ Len(props.file_min) > 0 \/ HasBlurHash[properties]
            THEN Str("yes") ELSE Str("no")
        enriched_creator == IF Truthy[creator] THEN EnrichCreatorWithName[cm, creator] ELSE EmptyStr
        orig_arrival_ts == ConvertTimestampEpoch[orig_arrival]
        edit_time_val == ExtractTimestampFromProperties[properties, "edittime"]
        compose_time_val == ExtractTimestampFromProperties[properties, "composetime"]
        delete_time_val == ExtractTimestampFromProperties[properties, "deletetime"]
        draft_time_val == ExtractTimestampFromProperties[properties, "drafttimestamp"]
        message ==
            Art("TSK_TEAMS_MESSAGE",
                A("TSK_TEAMS_TENANTID", tenant_id)
                \o A("TSK_TEAMS_CONV_ID", conversation_id)
                \o A("TSK_TEAMS_MSG_ID", msg_id)
                \o A("TSK_TEAMS_SEQ_ID", Str(PyStr[seq_id]))
                \o A("TSK_TEAMS_CREATOR", enriched_creator)
                \o A("TSK_TEAMS_DISPLAY_NAME", IF Truthy[display_name] THEN display_name ELSE EmptyStr)
                \o A("TSK_TEAMS_CONTENT", content)
                \o A("TSK_TEAMS_MSG_TYPE", msg_type)
                \o A("TSK_TEAMS_HAS_ATTACHMENT", has_attachment)
                \o A("TSK_TEAMS_PROPERTIES", SerializeProperties[properties])
                \o Opt(Truthy[orig_arrival_ts], "TSK_TEAMS_ORIG_ARRIVAL", orig_arrival_ts)
                \o Opt(Truthy[edit_time_val], "TSK_TEAMS_EDIT_TIME", edit_time_val)
                \o Opt(Truthy[compose_time_val], "TSK_TEAMS_COMPOSE_TIME", compose_time_val)
                \o Opt(Truthy[delete_time_val], "TSK_TEAMS_DELETE_TIME", delete_time_val)
                \o Opt(Truthy[draft_time_val], "TSK_TEAMS_DRAFT_TIME", draft_time_val))
        links == [i \in 1..Len(props.link_urls) |->
                    MakeAttachment[conversation_id, msg_id, props.link_urls[i],
                                   EmptyStr, Str("link"), tenant_id]]
        files == [i \in 1..Len(props.file_min) |->
                    MakeAttachment[conversation_id, msg_id, EmptyStr,
                                   props.file_min[i].fileName, props.file_min[i].fileType,
                                   tenant_id]]
        mentions == [i \in 1..Len(props.mention_min) |->
                       MakeMention[conversation_id, msg_id, props.mention_min[i].mri,
                                   props.mention_min[i].mentionType,
                                   props.mention_min[i].displayName, tenant_id]]
    IN  IF (from_files /\ names.raised) \/ props.raised
        THEN Raised(ams)
        ELSE Done(ams \o <<message>> \o links \o files \o mentions)

\* _process_regular_message(msg, conversation_id, ...): msg is a dict
ProcessRegularMessage[msg, conversation_id, cm, tm \in Any] ==
    RegularMessage[msg, conversation_id, cm, tm, CleanedContent[msg, cm]]

\* _add_call_log_attributes(art, calllog_data, bb): the attributes it adds
AddCallLogAttributes[cm, calllog_data \in Any] ==
    LET start_time == Get[calllog_data, "startTime", Null]
        end_time == Get[calllog_data, "endTime", Null]
        duration == CalculateCallDuration[start_time, end_time]
        Field(key, name) ==
            Opt(Truthy[Get[calllog_data, key, Null]], name,
                Str(PyStr[Get[calllog_data, key, Null]]))
        originator_part == Get[calllog_data, "originatorParticipant", EmptyObj]
        target_part == Get[calllog_data, "targetParticipant", EmptyObj]
        participants == Get[calllog_data, "participants", Null]
        participant_list == Get[calllog_data, "participantList", Null]
    IN  Opt(Truthy[start_time], "TSK_TEAMS_CALLLOG_STARTTIME", ConvertTimestampDisplay[start_time])
        \o Opt(Truthy[end_time], "TSK_TEAMS_CALLLOG_ENDTIME", ConvertTimestampDisplay[end_time])
        \o Opt(Truthy[start_time] /\ Truthy[end_time] /\ Truthy[duration],
               "TSK_TEAMS_CALLLOG_DURATION_CALC", duration)
        \o Field("callDirection", "TSK_TEAMS_CALLLOG_DIRECTION")
        \o Field("callType", "TSK_TEAMS_CALLLOG_CALLTYPE")
        \o Field("callState", "TSK_TEAMS_CALLLOG_STATE")
        \o Field("callId", "TSK_TEAMS_CALLLOG_CALLID2")
        \o Opt(Truthy[originator_part], "TSK_TEAMS_CALLLOG_ORIGINATOR",
               FormatParticipantInfo[cm, originator_part])
        \o Opt(Truthy[target_part], "TSK_TEAMS_CALLLOG_TARGET",
               FormatParticipantInfo[cm, target_part])
        \o Opt(Truthy[participants], "TSK_TEAMS_CALLLOG_PARTICIPANTS",
               FormatParticipantsList[cm, participants])
        \o Opt(Truthy[participant_list], "TSK_TEAMS_CALLLOG_PARTICIPANT_LIST",
               Str(Dumps[participant_list]))

\* the value bound to calllog_data: json.loads of a string blob, {} when that
\* raises, the property itself when it is not a string
CallLogData[blob \in Any] ==
    IF IsString(blob)
    THEN LET parsed == JsonLoads[blob.s] IN IF parsed.ok THEN parsed.v ELSE EmptyObj
    ELSE blob

\* the guard of _process_call_log: a Text message with a call-log property
IsCallLogRecord[msg \in Any] ==
    /\ Get[msg, "messageType", EmptyStr] = Str("Text")
    /\ IsDict(Get[msg, "properties", EmptyObj])
    /\ Has(Get[msg, "properties", EmptyObj], "call-log")

\* _process_call_log(msg, conversation_id, ...): msg is a dict.  The first
\* calllog_data.get raises when the blob did not decode to a dict.
ProcessCallLog[msg, conversation_id, cm, tm \in Any] ==
    IF ~IsCallLogRecord[msg] THEN Done(<<>>)
    ELSE LET properties == Get[msg, "properties", EmptyObj]
             calllog_data == CallLogData[properties.o["call-log"]]
             orig_arrival_ts == ConvertTimestampEpoch[Get[msg, "originalArrivalTime", Null]]
         IN  IF ~IsDict(calllog_data) THEN Raised(<<>>)
             ELSE Done(<<Art("TSK_TEAMS_CALLLOG_CONV",
                     A("TSK_TEAMS_TENANTID", TenantOf(tm, conversation_id))
                     \o A("TSK_TEAMS_CONV_ID", conversation_id)
                     \o A("TSK_TEAMS_SEQ_ID", Str(PyStr[Get[msg, "sequenceId", Null]]))
                     \o A("TSK_TEAMS_CONTENT", SafeUnicode[Get[msg, "content", EmptyStr]])
                     \o A("TSK_TEAMS_MSG_ID", SafeUnicode[Get[msg, "id", Null]])
                     \o A("TSK_TEAMS_MSG_TYPE", Get[msg, "messageType", EmptyStr])
                     \o A("TSK_TEAMS_PROPERTIES", SerializeProperties[properties])
                     \o Opt(Truthy[orig_arrival_ts], "TSK_TEAMS_ORIG_ARRIVAL", orig_arrival_ts)
                     \o AddCallLogAttributes[cm, calllog_data])>>)

\* _extract_call_recording_attributes(art, content): the attributes it adds
ExtractCallRecordingAttributes[cm, content \in Any] ==
    LET status == SearchTagAttr[content, "<RecordingStatus", "status=\"", 1]
        name == SearchTagAttr[content, "<OriginalName", "v=\"", 1]
        initiator == SearchTagAttr[content, "<RecordingInitiatorId", "value=\"", 1]
        terminator == SearchTagAttr[content, "<RecordingTerminatorId", "value=\"", 1]
        call_id == SearchTagMidAttr[content, "<Id", "type=\"callId\"", "value=\""]
        duration == SearchTagAttr[content, "<RecordingContent", "duration=\"", 1]
        timestamp == SearchTagAttr[content, "<RecordingContent", "timestamp=\"", 1]
        organizer == SearchTagAttr[content, "<MeetingOrganizerId", "value=\"", 0]
    IN  Opt(status.ok, "TSK_TEAMS_CALLLOG_STATUS", Str(status.text))
        \o Opt(name.ok, "TSK_TEAMS_CALLLOG_ORIGINALNAME", Str(name.text))
        \o Opt(initiator.ok, "TSK_TEAMS_CALLLOG_INITIATOR",
               EnrichCreatorWithName[cm, Str(initiator.text)])
        \o Opt(terminator.ok, "TSK_TEAMS_CALLLOG_TERMINATOR",
               EnrichCreatorWithName[cm, Str(terminator.text)])
        \o Opt(call_id.ok, "TSK_TEAMS_CALLLOG_CALLID", Str(call_id.text))
        \o Opt(duration.ok, "TSK_TEAMS_CALLLOG_DURATION", Str(duration.text))
        \o Opt(timestamp.ok, "TSK_TEAMS_CALLLOG_TIMESTAMP",
               ConvertTimestampDisplay[Str(timestamp.text)])
        \o Opt(organizer.ok, "TSK_TEAMS_CALLLOG_MEETING_ORGID",
               IF organizer.text # "" THEN EnrichCreatorWithName[cm, Str(organizer.text)]
               ELSE EmptyStr)

\* the attributes shared by call activities and meeting events
TimeAttributes[msg \in Any] ==
    LET properties == Get[msg, "properties", EmptyObj]
        orig_arrival_ts == ConvertTimestampEpoch[Get[msg, "originalArrivalTime", Null]]
        edit_time_val == ExtractTimestampFromProperties[properties, "edittime"]
        compose_time_val == ExtractTimestampFromProperties[properties, "composetime"]
        delete_time_val == ExtractTimestampFromProperties[properties, "deletetime"]
    IN  Opt(Truthy[orig_arrival_ts], "TSK_TEAMS_ORIG_ARRIVAL", orig_arrival_ts)
        \o Opt(Truthy[edit_time_val], "TSK_TEAMS_EDIT_TIME", edit_time_val)
        \o Opt(Truthy[compose_time_val], "TSK_TEAMS_COMPOSE_TIME", compose_time_val)
        \o Opt(Truthy[delete_time_val], "TSK_TEAMS_DELETE_TIME", delete_time_val)

\* _process_call_activity(msg, conversation_id, ...): msg is a dict
ProcessCallActivity[msg, conversation_id, cm, tm \in Any] ==
    LET content == SafeUnicode[Get[msg, "content", EmptyStr]]
        msg_type == SafeUnicode[Get[msg, "messageType", Null]]
    IN  Done(<<Art("TSK_TEAMS_CALLLOG_MSG",
            A("TSK_TEAMS_TENANTID", TenantOf(tm, conversation_id))
            \o A("TSK_TEAMS_CONV_ID", conversation_id)
            \o A("TSK_TEAMS_SEQ_ID", Str(PyStr[Get[msg, "sequenceId", Null]]))
            \o A("TSK_TEAMS_CONTENT", content)
            \o A("TSK_TEAMS_MSG_ID", SafeUnicode[Get[msg, "id", Null]])
            \o A("TSK_TEAMS_MSG_TYPE", msg_type)
            \o A("TSK_TEAMS_PROPERTIES", SerializeProperties[Get[msg, "properties", EmptyObj]])
            \o TimeAttributes[msg]
            \o (IF msg_type = Str("RichText/Media_CallRecording")
                THEN ExtractCallRecordingAttributes[cm, content.s] ELSE <<>>))>>)

\* _extract_meeting_attributes(art, properties, bb): the attributes it adds
ExtractMeetingAttributes[cm, properties \in Any] ==
    IF ~IsDict(properties) THEN <<>>
    ELSE LET participants == Get[properties, "participants", Null]
             organizer_upn == Get[properties, "organizerUpn", Null]
             meeting_type == Get[properties, "meetingType", Null]
             start_time == Get[properties, "startTime", Null]
             end_time == Get[properties, "endTime", Null]
         IN  Opt(Truthy[participants], "TSK_TEAMS_EVENTCALL_PARTICIPANTS",
                 Str(Dumps[EnrichParticipantsWithNames[cm, participants]]))
             \o Opt(Truthy[organizer_upn], "TSK_TEAMS_EVENTCALL_ORGANIZERUPN",
                    Str(PyStr[organizer_upn]))
             \o Opt(Truthy[meeting_type], "TSK_TEAMS_EVENTCALL_MEETINGTYPE",
                    Str(PyStr[meeting_type]))
             \o Opt(Truthy[start_time], "TSK_TEAMS_EVENTCALL_STARTTIME",
                    ConvertTimestampDisplay[start_time])
             \o Opt(Truthy[end_time], "TSK_TEAMS_EVENTCALL_ENDTIME",
                    ConvertTimestampDisplay[end_time])

\* _process_meeting_event(msg, conversation_id, ...): msg is a dict
ProcessMeetingEvent[msg, conversation_id, cm, tm \in Any] ==
    LET properties == Get[msg, "properties", EmptyObj]
    IN  Done(<<Art("TSK_TEAMS_EVENTCALL",
            A("TSK_TEAMS_TENANTID", TenantOf(tm, conversation_id))
            \o A("TSK_TEAMS_CONV_ID", conversation_id)
            \o A("TSK_TEAMS_SEQ_ID", Str(PyStr[Get[msg, "sequenceId", Null]]))
            \o A("TSK_TEAMS_CONTENT", SafeUnicode[Get[msg, "content", EmptyStr]])
            \o A("TSK_TEAMS_MSG_ID", SafeUnicode[Get[msg, "id", Null]])
            \o A("TSK_TEAMS_CREATOR",
                 EnrichCreatorWithName[cm, SafeUnicode[Get[msg, "creator", Null]]])
            \o A("TSK_TEAMS_MSG_TYPE", SafeUnicode[Get[msg, "messageType", Null]])
            \o A("TSK_TEAMS_PROPERTIES", SerializeProperties[properties])
            \o TimeAttributes[msg]
            \o ExtractMeetingAttributes[cm, properties])>>)


\* the artifact of one (reaction, user) pair: u is a dict
ReactionArtifact[u, reaction_type, msg_id, seq_id, tenant_id, cm \in Any] ==
    LET mri == Get[u, "mri", EmptyStr]
        time_val == ConvertTimestampEpoch[Get[u, "time", Null]]
        enriched_mri == IF Truthy[mri] THEN EnrichCreatorWithName[cm, mri] ELSE mri
    IN  Art("TSK_TEAMS_REACTION",
            A("TSK_TEAMS_TENANTID", tenant_id)
            \o A("TSK_TEAMS_REACTION_MSG_ID", msg_id)
            \o A("TSK_TEAMS_REACTION_SEQ_ID", Str(PyStr[seq_id]))
            \o A("TSK_TEAMS_REACTION_TYPE",
                 IF Truthy[reaction_type] THEN reaction_type ELSE EmptyStr)
            \o A("TSK_TEAMS_REACTION_MRI", enriched_mri)
            \o Opt(Truthy[time_val], "TSK_TEAMS_REACTION_TIME", time_val))

\* "for u in users": u.get raises on a user that is not a dict, and the
\* directory lookup raises on an unhashable identifier
ReactionUsers[users, reaction_type, msg_id, seq_id, tenant_id, cm \in Any] ==
    IF Len(users) = 0 THEN Done(<<>>)
    ELSE LET u == users[1]
         IN  IF ~IsDict(u) THEN Raised(<<>>)
             ELSE IF /\ Truthy[Get[u, "mri", EmptyStr]] /\ ~Hashable(Get[u, "mri", EmptyStr])
                     /\ DOMAIN cm # {}
             THEN Raised(<<>>)
             ELSE Only({[raised |-> rest.raised,
                         arts |-> <<ReactionArtifact[u, reaction_type, msg_id, seq_id,
                                                     tenant_id, cm]>> \o rest.arts] :
                        rest \in {ReactionUsers[Tail(users), reaction_type, msg_id, seq_id,
                                                tenant_id, cm]}})

\* "for v in values": v.get raises on an element that is not a dict, and the
\* users of an element must be iterable
ReactionValues[values, msg_id, seq_id, tenant_id, cm \in Any] ==
    IF Len(values) = 0 THEN Done(<<>>)
    ELSE LET v == values[1]
         IN  IF ~IsDict(v) THEN Raised(<<>>)
             ELSE LET users_obj == Get[v, "users", EmptyObj]
                      users == IF IsDict(users_obj) THEN Get[users_obj, "values", EmptyList]
                               ELSE EmptyList
                      it == IterItems[users]
                  IN  IF ~it.ok THEN Raised(<<>>)
                      ELSE Only({IF mine.raised THEN mine
                                 ELSE Only({[raised |-> rest.raised,
                                             arts |-> mine.arts \o rest.arts] :
                                            rest \in {ReactionValues[Tail(values), msg_id,
                                                                     seq_id, tenant_id, cm]}}) :
                                 mine \in {ReactionUsers[it.items, Get[v, "key", Null], msg_id,
                                                         seq_id, tenant_id, cm]}})

\* _process_message_reactions(msg, conversation_id, ...): msg is a dict
ProcessMessageReactions[msg, conversation_id, cm, tm \in Any] ==
    LET properties == Get[msg, "properties", EmptyObj]
        react_obj == Get[properties, "emotions", Null]
        it == IterItems[Get[react_obj, "values", EmptyList]]
    IN  IF ~IsDict(properties) THEN Done(<<>>)
        ELSE IF ~(Truthy[react_obj] /\ IsDict(react_obj)) THEN Done(<<>>)
        ELSE IF ~it.ok THEN Raised(<<>>)
        ELSE ReactionValues[it.items, SafeUnicode[Get[msg, "id", Null]],
                            Get[msg, "sequenceId", Null],
                            TenantOf(tm, conversation_id), cm]

NoCounters == [messages |-> 0, calls_conv |-> 0, calls_msg |-> 0, meetings |-> 0]

AddCounters[a, b \in Any] ==
    [messages |-> a.messages + b.messages, calls_conv |-> a.calls_conv + b.calls_conv,
     calls_msg |-> a.calls_msg + b.calls_msg, meetings |-> a.meetings + b.meetings]

CallLogConversation == Str("48:calllogs")

\* A variant in which the call-log conversation is only one of three
\* conditions of the first branch; the classification property is to fail
\* against it.
PrimaryBranchByThreeConditions(msg, conversation_id) ==
    LET msg_type == Get[msg, "messageType", EmptyStr]
    IN  IF conversation_id = CallLogConversation /\ IsCallLogRecord[msg] THEN "calls_conv"
        ELSE IF msg_type \in {Str("RichText/Media_CallRecording"),
                              Str("RichText/Media_CallTranscript")} THEN "calls_msg"
        ELSE IF msg_type = Str("Event/Call") THEN "meetings"
        ELSE IF msg_type \in {Str("Text"), Str("RichText/Html")} THEN "messages"
        ELSE "none"

\* The branch _process_single_message takes for a message: which builder runs.
PrimaryBranch(msg, conversation_id) ==
    LET msg_type == Get[msg, "messageType", EmptyStr]
    IN  IF conversation_id = CallLogConversation THEN "calls_conv"
        ELSE IF msg_type \in {Str("RichText/Media_CallRecording"),
                              Str("RichText/Media_CallTranscript")} THEN "calls_msg"
        ELSE IF msg_type = Str("Event/Call") THEN "meetings"
        ELSE IF msg_type \in {Str("Text"), Str("RichText/Html")} THEN "messages"
        ELSE "none"

\* the builder of that branch
PrimaryBuilder[msg, conversation_id, cm, tm \in Any] ==
    LET branch == PrimaryBranch(msg, conversation_id)
    IN  CASE branch = "calls_conv" -> ProcessCallLog[msg, conversation_id, cm, tm]
          [] branch = "calls_msg"  -> ProcessCallActivity[msg, conversation_id, cm, tm]
          [] branch = "meetings"   -> ProcessMeetingEvent[msg, conversation_id, cm, tm]
          [] branch = "messages"   -> ProcessRegularMessage[msg, conversation_id, cm, tm]
          [] OTHER                 -> Done(<<>>)

PrimaryKinds ==
    {"TSK_TEAMS_MESSAGE", "TSK_TEAMS_CALLLOG_CONV", "TSK_TEAMS_CALLLOG_MSG", "TSK_TEAMS_EVENTCALL"}

\* how many artifacts of q have a kind in kinds
CountKinds[q, kinds \in Any] == Len(SelectSeq(q, LAMBDA a : a.kind \in kinds))

\* The record of one call of _process_single_message: the message, what the
\* primary builder and the reaction pass indexed, whether the reaction pass
\* was entered and whether the call left by an exception.
Call[msg, conversation_id, primary, reacted, reactions, raised \in Any] ==
    [msg |-> msg, conversation_id |-> conversation_id, primary |-> primary,
     reacted |-> reacted, reactions |-> reactions, raised |-> raised]

\* _process_single_message(msg, conversation_id, ...): [raised, arts,
\* counters, calls].  msg.get raises on a message that is not a dict; an
\* exception in the primary builder leaves before the reaction pass.
ProcessSingleMessage[msg, conversation_id, cm, tm \in Any] ==
    LET branch == PrimaryBranch(msg, conversation_id)
        counted(n) == IF branch = "none" THEN NoCounters ELSE [NoCounters EXCEPT ![branch] = n]
        react(primary, reactions) ==
            [raised |-> reactions.raised,
             arts |-> primary.arts \o reactions.arts,
             counters |-> counted(CountKinds[primary.arts, PrimaryKinds]),
             calls |-> <<Call[msg, conversation_id, primary.arts, TRUE,
                              reactions.arts, reactions.raised]>>]
        after(primary) ==
            IF primary.raised
            THEN [raised |-> TRUE, arts |-> primary.arts, counters |-> NoCounters,
                  calls |-> <<Call[msg, conversation_id, primary.arts, FALSE, <<>>, TRUE]>>]
            ELSE Only({react(primary, reactions) :
                       reactions \in {ProcessMessageReactions[msg, conversation_id, cm, tm]}})
    IN  IF ~IsDict(msg)
        THEN [raised |-> TRUE, arts |-> <<>>, counters |-> NoCounters,
              calls |-> <<Call[msg, conversation_id, <<>>, FALSE, <<>>, TRUE]>>]
        ELSE Only({after(primary) : primary \in {PrimaryBuilder[msg, conversation_id, cm, tm]}})

\* the messages of a message map, in the order .values() visits them
MessageMapValues[message_map \in Any] ==
    LET ks == KeyOrder[DOMAIN message_map.o]
    IN  [i \in 1..Len(ks) |-> message_map.o[ks[i]]]

\* "for msg in message_map.values()": [raised, arts, counters, calls]
ProcessMessages[msgs, conversation_id, cm, tm \in Any] ==
    LET both(first, rest) ==
            [raised |-> rest.raised,
             arts |-> first.arts \o rest.arts,
             counters |-> AddCounters[first.counters, rest.counters],
             calls |-> first.calls \o rest.calls]
        then(first) ==
            IF first.raised THEN first
            ELSE Only({both(first, rest) :
                       rest \in {ProcessMessages[Tail(msgs), conversation_id, cm, tm]}})
    IN  IF Len(msgs) = 0
        THEN [raised |-> FALSE, arts |-> <<>>, counters |-> NoCounters, calls |-> <<>>]
        ELSE Only({then(first) :
                   first \in {ProcessSingleMessage[msgs[1], conversation_id, cm, tm]}})

\* One iteration of the loop of _process_message_data, after the cancellation
\* test: [raised, arts, counters, calls].  rec.get raises on a record that is
\* not a dict; a record without a dict value, a conversation id or a dict
\* message map is skipped.
ProcessMessageRecord[rec, cm, tm \in Any] ==
    LET nothing(raised) ==
            [raised |-> raised, arts |-> <<>>, counters |-> NoCounters, calls |-> <<>>]
    IN  IF ~IsDict(rec) THEN nothing(TRUE)
        ELSE LET value_obj == Get[rec, "value", EmptyObj]
                 main_value == Get[value_obj, "value", EmptyObj]
                 conversation_id == Get[main_value, "conversationId", Null]
                 message_map == Get[main_value, "messageMap", EmptyObj]
             IN  IF ~IsDict(value_obj) \/ ~IsDict(main_value) THEN nothing(FALSE)
                 ELSE IF ~Truthy[conversation_id] \/ ~IsDict(message_map) THEN nothing(FALSE)
                 ELSE ProcessMessages[MessageMapValues[message_map], conversation_id, cm, tm]


(***************************************************************************)
(* Threads and contacts                                                    *)
(***************************************************************************)

\* _determine_thread_artifact_type(threadId)
DetermineThreadArtifactType[threadId \in STRING] ==
    IF EndsWith[threadId, "@thread.v2"] THEN "TSK_TEAMS_GROUP_CHAT"
    ELSE IF EndsWith[threadId, "@unq.gbl.spaces"] THEN "TSK_TEAMS_PRIVATE_CHAT"
    ELSE IF EndsWith[threadId, "@thread.tacv2"] THEN "TSK_TEAMS_TEAMS_CHAT"
    ELSE "TSK_TEAMS_THREADINFO"

\* A variant that attaches the team identifier to any thread that has one; the
\* thread classification is to fail against it.
TeamIdAttachedWhenGiven(threadId, teamId) == Truthy[teamId]

\* "if threadId.endswith("@thread.tacv2") and teamId:"
TeamIdAttached(threadId, teamId) ==
    EndsWith[threadId.s, "@thread.tacv2"] /\ Truthy[teamId]

\* _populate_thread_artifact(art, threadId, threadType, teamId, tenantId, thread_data)
PopulateThreadArtifact[threadId, threadType, teamId, tenantId \in Any] ==
    A("TSK_TEAMS_THREAD_ID", threadId)
    \o A("TSK_TEAMS_THREAD_TYPE", threadType)
    \o A("TSK_TEAMS_TENANTID", IF Truthy[tenantId] THEN tenantId ELSE EmptyStr)
    \o Opt(TeamIdAttached(threadId, teamId), "TSK_TEAMS_TEAMID", teamId)

\* A variant that stores whatever tenant the record carries; the tenant-map
\* property is to fail against it.
StoreTenantAlways(tm, threadId, tenantId) ==
    IF Truthy[threadId] THEN MapPut[tm, threadId, tenantId] ELSE tm

\* "if threadId and tenantId: self.conversation_tenant_map[threadId] = tenantId"
StoreTenant(tm, threadId, tenantId) ==
    IF Truthy[threadId] /\ Truthy[tenantId] THEN MapPut[tm, threadId, tenantId] ELSE tm

\* One iteration of the loop of _process_conversations: [raised, arts, tm,
\* count].  rec.get raises on a record that is not a dict and thread_val.get
\* on a thread value that is not a dict.
ProcessConversationRecord[rec, tm \in Any] ==
    IF ~IsDict(rec) THEN [raised |-> TRUE, arts |-> <<>>, tm |-> tm, count |-> 0]
    ELSE LET value_obj == Get[rec, "value", EmptyObj]
             tenantId == Get[rec, "tenant_id", Null]
         IN  IF ~(IsDict(value_obj) /\ Has(value_obj, "value"))
             THEN [raised |-> FALSE, arts |-> <<>>, tm |-> tm, count |-> 0]
             ELSE LET thread_val == value_obj.o["value"]
                      threadId == SafeStringExtract[Get[thread_val, "id", Null]]
                      threadType == SafeStringExtract[Get[thread_val, "type", Null]]
                      teamId == SafeStringExtract[Get[thread_val, "teamId", Null]]
                  IN  IF ~IsDict(thread_val)
                      THEN [raised |-> TRUE, arts |-> <<>>, tm |-> tm, count |-> 0]
                      ELSE [raised |-> FALSE,
                            arts |-> <<Art(DetermineThreadArtifactType[threadId.s],
                                           PopulateThreadArtifact[threadId, threadType,
                                                                  teamId, tenantId])>>,
                            tm |-> StoreTenant(tm, threadId, tenantId),
                            count |-> 1]

\* _populate_contact_artifact(art, contact_data): the method body is "pass"
PopulateContactArtifact(contact_data) == <<>>

\* A variant that starts the directory afresh at every contact; the directory
\* property is to fail against it.
StoreContactAfresh(cm, mri, displayName) ==
    IF Truthy[mri] /\ Truthy[displayName] THEN MapPut[<<>>, mri, displayName] ELSE cm

\* "if mri and displayName: self.contacts_map[mri] = displayName"
StoreContact(cm, mri, displayName) ==
    IF Truthy[mri] /\ Truthy[displayName] THEN MapPut[cm, mri, displayName] ELSE cm

\* One iteration of the loop of _process_people: [raised, arts, cm, count].
\* contact_data.get raises on a value that is not a dict, and the store on an
\* unhashable identifier.
ProcessPeopleRecord[rec, cm \in Any] ==
    IF ~(IsDict(rec) /\ Has(rec, "value"))
    THEN [raised |-> FALSE, arts |-> <<>>, cm |-> cm, count |-> 0]
    ELSE LET contact_data == rec.o["value"]
             mri == Get[contact_data, "mri", EmptyStr]
             displayName == Get[contact_data, "displayname", EmptyStr]
         IN  IF ~IsDict(contact_data)
             THEN [raised |-> TRUE, arts |-> <<>>, cm |-> cm, count |-> 0]
             ELSE IF Truthy[mri] /\ Truthy[displayName] /\ ~Hashable(mri)
             THEN [raised |-> TRUE, arts |-> <<>>, cm |-> cm, count |-> 0]
             ELSE [raised |-> FALSE,
                   arts |-> <<Art("TSK_TEAMS_CONTACTS", PopulateContactArtifact(contact_data))>>,
                   cm |-> StoreContact(cm, mri, displayName),
                   count |-> 1]


(***************************************************************************)
(* Input documents.  A document is a file found in the data source: its    *)
(* name, whether json.load succeeds on it, and the list it holds.          *)
(***************************************************************************)
Contact(mri, displayname) == Obj([value |-> Obj([mri |-> mri, displayname |-> displayname])])

Thread(fields) == Obj([value |-> Obj([value |-> Obj(fields)])])

ThreadOf(tenant, fields) ==
    Obj([tenant_id |-> tenant, value |-> Obj([value |-> Obj(fields)])])

Conversation(conversation_id, message_map) ==
    Obj([value |-> Obj([value |-> Obj([conversationId |-> conversation_id,
                                         messageMap |-> Obj(message_map)])])])

\* the emotions property as the exporter writes it
Emotions(key, users) ==
    Obj([values |-> List(<<Obj([key |-> Str(key), users |-> Obj([values |-> List(users)])])>>)])

ChatId == Str("19:chat@thread.v2")

PeopleDoc ==
    [name |-> "output_people.json", loads |-> TRUE,
     records |-> <<Contact(Str("8:alice"), Str("Alice")),
                   Contact(Str("8:bob"), Str("Bob")),
                   Contact(Str("8:alice"), Str("Alice Smith")),
                   Contact(Str("8:erin"), Str(""))>>]

\* the second record holds a null where the contact is expected
PeopleBrokenDoc ==
    [name |-> "output_people.json", loads |-> TRUE,
     records |-> <<Contact(Str("8:carol"), Str("Carol")),
                   Obj([value |-> Null]),
                   Contact(Str("8:dave"), Str("Dave"))>>]

ConversationsDoc ==
    [name |-> "output_conversations.json", loads |-> TRUE,
     records |-> <<ThreadOf(Str("tenant-0"), [id |-> ChatId, type |-> Str("chat")]),
                   Thread([id |-> Str("19:team@thread.tacv2"), type |-> Str("space"),
                           teamId |-> Str("team-7")]),
                   ThreadOf(Str("tenant-1"), [id |-> ChatId, type |-> Str("chat")]),
                   ThreadOf(Str(""), [id |-> ChatId, type |-> Str("chat")]),
                   Thread([id |-> ChatId, type |-> Str("chat")]),
                   Thread([id |-> Str("19:meeting_1@thread.skype"), type |-> Str("meeting"),
                           teamId |-> Str("team-9")]),
                   Thread([type |-> Str("chat")])>>]

\* the second record holds a string where the thread is expected
ConversationsBrokenDoc ==
    [name |-> "output_conversations.json", loads |-> TRUE,
     records |-> <<ThreadOf(Str("tenant-2"), [id |-> Str("19:other@unq.gbl.spaces"),
                                               type |-> Str("chat")]),
                   Obj([value |-> Obj([value |-> Str("oops")])]),
                   ThreadOf(Str("tenant-3"), [id |-> Str("19:late@thread.v2"),
                                               type |-> Str("chat")])>>]

RecordingContent ==
    "<URIObject><RecordingStatus status=\"Success\"/><RecordingInitiatorId value=\"8:alice\"/></URIObject>"

MessagesDoc ==
    [name |-> "output_replychains.json", loads |-> TRUE,
     records |-> <<
       Conversation(ChatId,
         [m1 |-> Obj([id |-> Str("m1"), sequenceId |-> Num(1), messageType |-> Str("Text"),
                      creator |-> Str("8:alice"), content |-> Str("hello"),
                      originalArrivalTime |-> Str("2023-11-14T22:13:20.123Z"),
                      properties |-> Obj([emotions |-> Emotions("like",
                          <<Obj([mri |-> Str("8:bob"), time |-> Num(1700000000)])>>),
                          mentions |-> Str(MentionsText)])]),
          m2 |-> Obj([id |-> Str("m2"), sequenceId |-> Num(2), messageType |-> Str("Event/Call"),
                      creator |-> Str("8:bob"), content |-> Str("")]),
          m3 |-> Obj([id |-> Str("m3"), sequenceId |-> Num(3),
                      messageType |-> Str("ThreadActivity/AddMember"),
                      properties |-> Obj([emotions |-> Emotions("heart",
                          <<Obj([mri |-> Str("8:alice"), time |-> Num(1700000100)]),
                            Obj([mri |-> Str("8:zed")])>>)])])]),
       Conversation(CallLogConversation,
         [c1 |-> Obj([id |-> Str("c1"), sequenceId |-> Num(4), messageType |-> Str("Text"),
                      properties |-> Obj("call-log" :> Str(CallLogText))]),
          c2 |-> Obj([id |-> Str("c2"), sequenceId |-> Num(5), messageType |-> Str("RichText/Html"),
                      creator |-> Str("8:bob"), content |-> Str("missed call note"),
                      properties |-> Obj([emotions |-> Emotions("like",
                          <<Obj([mri |-> Str("8:bob"), time |-> Num(1700000200)])>>)])]),
          c3 |-> Obj([id |-> Str("c3"), sequenceId |-> Num(6), messageType |-> Str("Text"),
                      properties |-> Obj("call-log" :> Str(BrokenJsonText))])]),
       Conversation(ChatId,
         [a1 |-> Obj([id |-> Str("a1"), sequenceId |-> Num(7),
                      messageType |-> Str("RichText/Media_CallRecording"),
                      content |-> Str(RecordingContent)]),
          a2 |-> Obj([id |-> Str("a2"), sequenceId |-> Num(8), messageType |-> Str("RichText/Html"),
                      creator |-> Str("8:carol"), content |-> Str(" see you ")])])>>]

\* malformed fragments: a null reaction user id and a null mention type (first
\* record), a call-log blob that decodes to a list (second record)
MalformedDoc ==
    [name |-> "output_misc.json", loads |-> TRUE,
     records |-> <<
       Conversation(ChatId,
         [x1 |-> Obj([id |-> Str("x1"), sequenceId |-> Num(1), messageType |-> Str("Text"),
                      creator |-> Str("8:dave"), content |-> Str("hi"),
                      properties |-> Obj([emotions |-> Emotions("like",
                          <<Obj([mri |-> Null, time |-> Num(1700000300)])>>),
                          mentions |-> List(<<Obj([mri |-> Str("8:bob"), mentionType |-> Null,
                                                   displayName |-> Str("Bob")])>>)])])]),
       Conversation(CallLogConversation,
         [y1 |-> Obj([id |-> Str("y1"), sequenceId |-> Num(2), messageType |-> Str("Text"),
                      properties |-> Obj("call-log" :> Str(ListJsonText))])]),
       Conversation(ChatId,
         [z1 |-> Obj([id |-> Str("z1"), sequenceId |-> Num(3), messageType |-> Str("Text"),
                      creator |-> Str("8:alice"), content |-> Str("later")])])>>]

\* a file json.load fails on
UnreadableDoc == [name |-> "output_extra.json", loads |-> FALSE, records |-> <<>>]

Library ==
    <<PeopleDoc, PeopleBrokenDoc, ConversationsDoc, ConversationsBrokenDoc, MessagesDoc,
      MalformedDoc, UnreadableDoc>>

\* how many files the data source holds at most
MaxFiles == 3

\* the sequences of distinct library documents of length 1..n: the orders in
\* which findFiles can return the files of a data source
RECURSIVE FileLists(_)
FileLists(n) ==
    IF n = 0 THEN {<<>>}
    ELSE LET shorter == FileLists(n - 1)
         IN  shorter \cup {q \o <<d>> : q \in shorter, d \in 1..Len(Library)}

DistinctLists(n) ==
    {q \in FileLists(n) : Len(q) >= 1 /\ \A i, j \in 1..Len(q) : i # j => q[i] # q[j]}


(***************************************************************************)
(* The ingest run: process(dataSource, progressBar)                        *)
(***************************************************************************)
VARIABLES
    jsonFiles,                \* what findFiles returned, as indices into Library
    conversationFiles, peopleFiles, otherFiles,
    pc,                       \* "categorize", "files", "records", "done", "crashed";
                              \* "unit" when a helper is called on its own
    phase,                    \* the loop of _process_files_in_sequence being run
    fileIdx,                  \* position in the file list of that loop
    recIdx,                   \* position in the records of the open file
    counters,                 \* the counters of the open file, by category
    cancelled,                \* context.isJobCancelled()
    contacts_map, conversation_tenant_map,
    artifacts,                \* the blackboard: what indexArtifact received
    posted,                   \* the ingest messages posted
    result,                   \* what process() returned
    started,                  \* history: the files in the order they were opened
    handled,                  \* history: the loop iterations run, in order
    calls,                    \* history: the calls of _process_single_message
    cancelMark,               \* history: Len(handled) when the job was cancelled
    unit,                     \* a helper called on its own: its name, its arguments
                              \* and, once it has returned, its result
    leveldb,                  \* replychains_extraction: the path it is given
    scan,                     \* its position: the step, the file and the record
    database_ids,             \* the database ids found for "replychains"
    records,                  \* the entries collected for the output
    output_json               \* what was written to the output file

vars ==
    <<jsonFiles, conversationFiles, peopleFiles, otherFiles, pc, phase, fileIdx, recIdx,
      counters, cancelled, contacts_map, conversation_tenant_map, artifacts, posted,
      result, started, handled, calls, cancelMark, unit,
      leveldb, scan, database_ids, records, output_json>>

\* the state of replychains_extraction
extraction == <<leveldb, scan, database_ids, records, output_json>>

\* replychains_extraction is not run
NoExtraction ==
    /\ leveldb = [is_dir |-> TRUE, files |-> <<>>]
    /\ scan = [step |-> "none", f |-> 1, r |-> 1]
    /\ database_ids = {} /\ records = <<>> /\ output_json = <<>>

\* os.path.basename / jsonFile.getName() of a file
Basename(d) == Library[d].name

\* A variant that keeps the files in the order they were found; the category
\* order is to fail against it.
CategorizeInDiscoveryOrder(files) ==
    [conversationFiles |-> <<>>, peopleFiles |-> <<>>, otherFiles |-> files]

\* _categorize_json_files(jsonFiles)
CategorizeJsonFiles(files) ==
    [conversationFiles |-> SelectSeq(files, LAMBDA d : Basename(d) = "output_conversations.json"),
     peopleFiles |-> SelectSeq(files, LAMBDA d : Basename(d) = "output_people.json"),
     otherFiles |-> SelectSeq(files, LAMBDA d : Basename(d) \notin
                        {"output_conversations.json", "output_people.json"})]

\* the three loops of _process_files_in_sequence, in program order
PhaseFiles ==
    CASE phase = "people"        -> peopleFiles
      [] phase = "conversations" -> conversationFiles
      [] OTHER                   -> otherFiles

\* A variant without the except clause: an exception leaves process(); the
\* completion of the run is to fail against it.
ParseJsonPropagates(raised) == IF raised THEN "crashed" ELSE "files"

\* the except clause of _parse_json: where control is after an exception was
\* raised (or not) inside the try block
ParseJsonExit(raised) == "files"

\* the branch of _parse_json that handles a file of this name
Dispatch(basename) ==
    IF basename = "output_conversations.json" THEN "conversations"
    ELSE IF basename = "output_people.json" THEN "people"
    ELSE "other"

\* sum(counters.values())
SumValues[file_counters \in Any] ==
    IF DOMAIN file_counters = {} THEN 0
    ELSE LET k == CHOOSE x \in DOMAIN file_counters : TRUE
         IN  file_counters[k] + SumValues[[x \in DOMAIN file_counters \ {k} |-> file_counters[x]]]

\* total_processed of _post_processing_message
TotalProcessed(file_counters) == SumValues[file_counters]

\* _post_processing_message(basename, counters)
PostProcessingMessage(d, file_counters) ==
    IF TotalProcessed(file_counters) > 0
    THEN <<[type |-> "DATA", file |-> d, total |-> TotalProcessed(file_counters)]>>
    ELSE <<>>

\* the counters _parse_json starts a file with
InitialCounters ==
    [messages |-> 0, calls_conv |-> 0, calls_msg |-> 0, meetings |-> 0,
     threads |-> 0, contacts |-> 0]

\* _handle_parsing_error(json_path, error)
HandleParsingError(d) == <<[type |-> "ERROR", file |-> d, total |-> 0]>>

\* the artifacts of one loop iteration, as the blackboard holds them
Indexed(arts, d, r) ==
    [i \in 1..Len(arts) |-> [kind |-> arts[i].kind, attrs |-> arts[i].attrs,
                             file |-> d, rec |-> r]]

\* A variant in which the blackboard keeps the latest artifacts only; the
\* permanence of the records is to fail against it.
IndexOverwriting(blackboard, arts) == arts

\* bb.indexArtifact(art) for the artifacts of one record, in their order: the
\* blackboard gains them and keeps what it has
IndexArtifacts(blackboard, arts) == blackboard \o arts

Init ==
    /\ jsonFiles \in DistinctLists(MaxFiles)
    /\ conversationFiles = <<>> /\ peopleFiles = <<>> /\ otherFiles = <<>>
    /\ pc = "categorize" /\ phase = "people" /\ fileIdx = 1 /\ recIdx = 1
    /\ counters = InitialCounters
    /\ cancelled = FALSE
    /\ contacts_map = <<>> /\ conversation_tenant_map = <<>>
    /\ artifacts = <<>> /\ posted = <<>> /\ result = "none"
    /\ started = <<>> /\ handled = <<>> /\ calls = <<>> /\ cancelMark = -1
    /\ unit = [fn |-> "none"]
    /\ NoExtraction

\* process(): findFiles, then _categorize_json_files
Categorize ==
    /\ pc = "categorize"
    /\ LET c == CategorizeJsonFiles(jsonFiles)
       IN  /\ conversationFiles' = c.conversationFiles
           /\ peopleFiles' = c.peopleFiles
           /\ otherFiles' = c.otherFiles
    /\ pc' = "files"
    /\ UNCHANGED <<extraction, unit, jsonFiles, phase, fileIdx, recIdx, counters, cancelled, contacts_map,
                   conversation_tenant_map, artifacts, posted, result, started, handled,
                   calls, cancelMark>>

\* the user cancels the ingest job (the environment, at any moment of the run)
CancelJob ==
    /\ pc \in {"files", "records"}
    /\ ~cancelled
    /\ cancelled' = TRUE
    /\ cancelMark' = Len(handled)
    /\ UNCHANGED <<extraction, unit, jsonFiles, conversationFiles, peopleFiles, otherFiles, pc, phase,
                   fileIdx, recIdx, counters, contacts_map, conversation_tenant_map,
                   artifacts, posted, result, started, handled, calls>>

\* a loop of _process_files_in_sequence is exhausted: the next loop, or the
\* final "return OK"
NextPhase ==
    /\ pc = "files"
    /\ fileIdx > Len(PhaseFiles)
    /\ IF phase = "other"
       THEN pc' = "done" /\ result' = "OK" /\ UNCHANGED <<phase, fileIdx>>
       ELSE /\ phase' = (IF phase = "people" THEN "conversations" ELSE "other")
            /\ fileIdx' = 1
            /\ UNCHANGED <<pc, result>>
    /\ UNCHANGED <<extraction, unit, jsonFiles, conversationFiles, peopleFiles, otherFiles, recIdx, counters,
                   cancelled, contacts_map, conversation_tenant_map, artifacts, posted,
                   started, handled, calls, cancelMark>>

\* "if self.context.isJobCancelled(): return OK" at the head of a file loop
ReturnCancelled ==
    /\ pc = "files"
    /\ fileIdx <= Len(PhaseFiles)
    /\ cancelled
    /\ pc' = "done"
    /\ result' = "OK"
    /\ UNCHANGED <<extraction, unit, jsonFiles, conversationFiles, peopleFiles, otherFiles, phase, fileIdx,
                   recIdx, counters, cancelled, contacts_map, conversation_tenant_map,
                   artifacts, posted, started, handled, calls, cancelMark>>

\* _process_single_file, _parse_json up to and including json.load, which
\* succeeds
OpenFile ==
    /\ pc = "files"
    /\ fileIdx <= Len(PhaseFiles)
    /\ ~cancelled
    /\ Library[PhaseFiles[fileIdx]].loads
    /\ started' = Append(started, PhaseFiles[fileIdx])
    /\ pc' = "records"
    /\ recIdx' = 1
    /\ counters' = InitialCounters
    /\ UNCHANGED <<extraction, unit, jsonFiles, conversationFiles, peopleFiles, otherFiles, phase, fileIdx,
                   cancelled, contacts_map, conversation_tenant_map, artifacts, posted,
                   result, handled, calls, cancelMark>>

\* _process_single_file, _parse_json: json.load raises, the except clause
\* posts the error
LoadFails ==
    /\ pc = "files"
    /\ fileIdx <= Len(PhaseFiles)
    /\ ~cancelled
    /\ ~Library[PhaseFiles[fileIdx]].loads
    /\ started' = Append(started, PhaseFiles[fileIdx])
    /\ posted' = posted \o HandleParsingError(PhaseFiles[fileIdx])
    /\ pc' = ParseJsonExit(TRUE)
    /\ fileIdx' = fileIdx + 1
    /\ UNCHANGED <<extraction, unit, jsonFiles, conversationFiles, peopleFiles, otherFiles, phase, recIdx,
                   counters, cancelled, contacts_map, conversation_tenant_map, artifacts,
                   result, handled, calls, cancelMark>>


\* the file being parsed and the record the loop is at
OpenDoc == PhaseFiles[fileIdx]

InRecords(branch) ==
    /\ pc = "records"
    /\ Dispatch(Basename(OpenDoc)) = branch
    /\ recIdx <= Len(Library[OpenDoc].records)

\* what one loop iteration leaves behind: the counters and the next record, or
\* the error message of the except clause and the next file
AfterRecord(raised, count) ==
    IF raised
    THEN /\ posted' = posted \o HandleParsingError(OpenDoc)
         /\ pc' = ParseJsonExit(TRUE)
         /\ fileIdx' = fileIdx + 1
         /\ UNCHANGED <<recIdx, counters>>
    ELSE /\ counters' = [k \in DOMAIN counters |->
                             counters[k] + (IF k \in DOMAIN count THEN count[k] ELSE 0)]
         /\ recIdx' = recIdx + 1
         /\ UNCHANGED <<posted, pc, fileIdx>>

Handled(raised) == [file |-> OpenDoc, rec |-> recIdx, raised |-> raised]

\* one iteration of "for rec in records" in _process_people
PeopleRecord ==
    /\ InRecords("people")
    /\ \E r \in {ProcessPeopleRecord[Library[OpenDoc].records[recIdx], contacts_map]} :
           /\ contacts_map' = r.cm
           /\ artifacts' = IndexArtifacts(artifacts, Indexed(r.arts, OpenDoc, recIdx))
           /\ handled' = Append(handled, Handled(r.raised))
           /\ AfterRecord(r.raised, [contacts |-> r.count])
    /\ UNCHANGED <<extraction, unit, jsonFiles, conversationFiles, peopleFiles, otherFiles, phase, cancelled,
                   conversation_tenant_map, result, started, calls, cancelMark>>

\* one iteration of "for rec in records" in _process_conversations
ConversationRecord ==
    /\ InRecords("conversations")
    /\ \E r \in {ProcessConversationRecord[Library[OpenDoc].records[recIdx],
                                             conversation_tenant_map]} :
           /\ conversation_tenant_map' = r.tm
           /\ artifacts' = IndexArtifacts(artifacts, Indexed(r.arts, OpenDoc, recIdx))
           /\ handled' = Append(handled, Handled(r.raised))
           /\ AfterRecord(r.raised, [threads |-> r.count])
    /\ UNCHANGED <<extraction, unit, jsonFiles, conversationFiles, peopleFiles, otherFiles, phase, cancelled,
                   contacts_map, result, started, calls, cancelMark>>

\* one iteration of "for rec in records" in _process_message_data, the job
\* not being cancelled
MessageRecord ==
    /\ InRecords("other")
    /\ ~cancelled
    /\ \E r \in {ProcessMessageRecord[Library[OpenDoc].records[recIdx], contacts_map,
                                        conversation_tenant_map]} :
           /\ artifacts' = IndexArtifacts(artifacts, Indexed(r.arts, OpenDoc, recIdx))
           /\ handled' = Append(handled, Handled(r.raised))
           /\ calls' = calls \o [i \in 1..Len(r.calls) |->
                                    [file |-> OpenDoc, rec |-> recIdx, call |-> r.calls[i]]]
           /\ AfterRecord(r.raised, r.counters)
    /\ UNCHANGED <<extraction, unit, jsonFiles, conversationFiles, peopleFiles, otherFiles, phase, cancelled,
                   contacts_map, conversation_tenant_map, result, started, cancelMark>>

\* the end of the try block of _parse_json: the post-processing message
CloseFile ==
    /\ posted' = posted \o PostProcessingMessage(OpenDoc, counters)
    /\ pc' = ParseJsonExit(FALSE)
    /\ fileIdx' = fileIdx + 1
    /\ UNCHANGED <<extraction, unit, jsonFiles, conversationFiles, peopleFiles, otherFiles, phase, recIdx,
                   counters, cancelled, contacts_map, conversation_tenant_map, artifacts,
                   result, started, handled, calls, cancelMark>>

\* "if self.context.isJobCancelled(): break" in _process_message_data
BreakOnCancel ==
    /\ InRecords("other")
    /\ cancelled
    /\ CloseFile

\* the records of the open file are exhausted
FinishFile ==
    /\ pc = "records"
    /\ recIdx > Len(Library[OpenDoc].records)
    /\ CloseFile

\* the steps of the module itself
Run ==
    \/ Categorize
    \/ NextPhase
    \/ ReturnCancelled
    \/ OpenFile
    \/ LoadFails
    \/ PeopleRecord
    \/ ConversationRecord
    \/ MessageRecord
    \/ BreakOnCancel
    \/ FinishFile

Next ==
    \/ Categorize
    \/ CancelJob
    \/ NextPhase
    \/ ReturnCancelled
    \/ OpenFile
    \/ LoadFails
    \/ PeopleRecord
    \/ ConversationRecord
    \/ MessageRecord
    \/ BreakOnCancel
    \/ FinishFile

Spec == Init /\ [][Next]_vars

\* process() runs on an ingest thread of its own: a step it can take is
\* eventually taken.  Nothing obliges the user to cancel.
FairSpec == Init /\ [][Next]_vars /\ WF_vars(Run)


(***************************************************************************)
(* The helpers of the module called on their own, on arguments drawn from   *)
(* bounded sets: one call per behaviour, no file is processed.             *)
(***************************************************************************)
UnitCall(fn, args) == [fn |-> fn, args |-> args, returned |-> FALSE, value |-> Null]

\* numbers around the millisecond threshold and around zero, as JSON numbers
\* and as numeric texts, and texts that are not numbers
TimestampValues ==
    {Num(n) : n \in {0, 1, 59, 3600, 86399, 86400, 1700000000, 1700003661, -1, -1700000000}}
    \cup {Wide(neg, hi, lo) : neg \in BOOLEAN, hi \in {99999, 100000, 17000000},
                              lo \in {0, 123, 99999}}
    \cup {Str(s) : s \in {"0", "1700000000", "9999999999", "10000000000", "1700000000123",
                          "-10000000000", " 1700000000 ", "soon", "",
                          "1970-01-01T00:00:00Z", "2023-11-14T22:13:20.123Z",
                          "2023-11-14T23:14:21", "2023-13-40T00:00:00"}}
    \cup {Null, EmptyObj}

\* the endpoints of a call: the epoch second 0 and later seconds, each in
\* several encodings, an earlier second, and values that do not parse
EndpointValues ==
    {Num(0), Num(-1), Num(1700000000), Num(1700003661), Wide(FALSE, 17000000, 123),
     Str("0"), Str("1970-01-01T00:00:00Z"), Str("2023-11-14T22:13:20.123Z"),
     Str("2023-11-14T23:14:21"), Str("2023-13-40T00:00:00"), Str("soon"), Null}

\* a mention fragment as the exporter writes it
Fragment(mri, displayName) ==
    Obj([mri |-> Str(mri), mentionType |-> Str("person"), displayName |-> Str(displayName)])

Fragments ==
    {Fragment(mri, displayName) :
        mri \in {"8:jane", "8:bob", ""}, displayName \in {"Jane", "Doe", ", Jr.", " "}}

MaxFragments == 3

\* the sequences over S of length 0..n
ListsOver[S \in Any, n \in Nat] ==
    IF n = 0 THEN {<<>>}
    ELSE ListsOver[S, n - 1] \cup {Append(q, x) : q \in ListsOver[S, n - 1], x \in S}

\* the record f without the fields that hold Null (a key that is absent)
Present(f) == [k \in {x \in DOMAIN f : f[x] # Null} |-> f[k]]

\* properties of a message: links with a url, with an itemid only or with an
\* empty url; a file with a name and one without; a blur-hash list
AttachmentProperties ==
    {Obj(Present([links |-> links, files |-> files, blurHash |-> blurHash])) :
        links \in {Null, EmptyList, List(<<Obj([url |-> Str("https://x/y")])>>),
                   List(<<Obj([itemid |-> Str("item-1")])>>),
                   List(<<Obj([url |-> Str(""), itemid |-> Str("item-1")])>>)},
        files \in {Null, EmptyList, List(<<Obj([fileName |-> Str("a.docx"),
                                              fileType |-> Str("docx")])>>),
                   List(<<EmptyObj>>)},
        blurHash \in {Null, EmptyList, List(<<Str("LEHV6nWB2yk8")>>), Str("")}}

\* the type and the content of a message: a text, a markup, and a markup
\* whose text names an AMSImage
MessageBodies ==
    {[messageType |-> "Text", content |-> "hello"],
     [messageType |-> "RichText/Html", content |-> "<p>hi</p>"],
     [messageType |-> "RichText/Html", content |-> "<p>AMSImage photo</p>"]}

\* A markup that is one hyperlink: the attributes before and after href, the
\* target, the label, whether a paragraph wraps the link, whether the tags are
\* in capitals, and the whitespace between the tags.
LinkMarkup(l) ==
    LET open == IF l.capitals THEN "<A " \o l.before \o "HREF=\"" ELSE "<a " \o l.before \o "href=\""
        close == IF l.capitals THEN "</A>" ELSE "</a>"
        link == open \o l.target \o "\"" \o l.after \o ">" \o l.label \o close
    IN  IF l.wrapped
        THEN (IF l.capitals THEN "<P>" ELSE "<p>") \o l.space \o link \o l.space
             \o (IF l.capitals THEN "</P>" ELSE "</p>")
        ELSE l.space \o link \o l.space

SingleLinks ==
    [before : {"", "title=\"t\" "}, after : {"", " target=\"_blank\""},
     target : {"https://x/y", "https://x/y?a=1&amp;b=2"}, label : {"click", "Click here"},
     wrapped : BOOLEAN, capitals : BOOLEAN, space : {"", " ", "\n"}]

\* texts that are not one hyperlink
OtherMarkup ==
    {"hello", " hello ", "<p>hi</p>", "a<br>b", "Tom &amp; Jerry",
     "see <a href=\"https://x/y\">this</a> now",
     "<a href=\"https://x/y\">one</a> <a href=\"https://x/z\">two</a>",
     "<p><b>bold</b> <a href=\"https://x/y\"><i>here</i></a></p>"}

\* <blockquote ... itemtype="http://schema.skype.com/<itemtype>">inner</blockquote>
Blockquote(itemtype, inner) ==
    "<blockquote itemscope=\"\" itemtype=\"http://schema.skype.com/" \o itemtype \o "\">"
    \o inner \o "</blockquote>"

\* the quoted participant of a reply: <strong>sender</strong> when there is
\* a sender, a span with the itemid when there is one
SenderMarkup(r) ==
    (IF r.sender # "" THEN "<strong>" \o r.sender \o "</strong>" ELSE "")

\* the quoted body of a reply: what the block holds besides the sender
QuotedBody(r) ==
    (IF r.itemid # "" THEN "<span itemid=\"" \o r.itemid \o "\"></span>" ELSE "") \o r.quoted

\* A markup with one Reply block: the content before it, the sender, the
\* identifier of the quoted participant, the quoted text and the content
\* after the block.
ReplyMarkup(r) == r.before \o Blockquote("Reply", SenderMarkup(r) \o QuotedBody(r)) \o r.after

ReplyMarkups ==
    [before : {"", "<p>intro</p>", " see <a href=\"https://x/y\">this</a> "},
     sender : {"", "Alice", " Bob B "}, itemid : {"", "8:alice"},
     quoted : {"hi", "<p>hi <b>there</b></p>"}, after : {"", "ok", "<p>ok</p> "}]

\* A markup with one Forward block
ForwardMarkup(f) == f.before \o Blockquote("Forward", f.quoted) \o f.after

ForwardMarkups ==
    [before : {"", "<p>fyi</p>"}, quoted : {"hi", "<p>hi <b>there</b></p>", ""},
     after : {"", "ok", " <p> </p> "}]

\* properties of a forwarded message: with and without originalMessageContext
ForwardProperties ==
    {Null, EmptyObj, Obj([originalMessageContext |-> EmptyObj]),
     Obj([originalMessageContext |-> Str("n/a")]),
     Obj([originalMessageContext |->
            Obj([sender |-> Str("Bob"), clientArrivalTime |-> Str("2023-11-14T22:13:20Z")])]),
     Obj([originalMessageContext |-> Obj([sender |-> Str("Bob")])]),
     Obj([originalMessageContext |-> Obj([clientArrivalTime |-> Num(1700000000)])])}

\* markups with a Reply block and a Forward block, in either order, side by
\* side or one in the other, and markups that repeat a block
MixedMarkup ==
    {Blockquote("Reply", "<strong>Alice</strong>hi") \o Blockquote("Forward", "fw") \o "ok",
     Blockquote("Forward", "fw") \o Blockquote("Reply", "<strong>Alice</strong>hi") \o "ok",
     Blockquote("Forward", "fw " \o Blockquote("Reply", "<strong>Alice</strong>hi")) \o "ok",
     Blockquote("Reply", "<strong>Alice</strong>hi " \o Blockquote("Forward", "fw")) \o "ok",
     Blockquote("Reply", "<strong>Alice</strong>hi") \o "ok"
        \o Blockquote("Reply", "<strong>Bob</strong>yes") \o "fine",
     Blockquote("Forward", "one") \o Blockquote("Forward", "two"),
     "<BLOCKQUOTE ITEMTYPE=\"HTTP://SCHEMA.SKYPE.COM/REPLY\">hi</BLOCKQUOTE>ok",
     "<blockquote>plain</blockquote> text",
     "<blockquote itemtype=\"http://schema.skype.com/Reply\">open", ""}

\* contact directories: empty, with the name as _process_people stores it,
\* with a record that holds the name, and with another participant only
Directories ==
    {<<>>, MapPut[<<>>, Str("8:alice"), Str("Alice A.")],
     MapPut[<<>>, Str("8:alice"), Obj([displayName |-> Str("Alice A.")])],
     MapPut[<<>>, Str("8:carol"), Str("Carol C.")]}

\* identifiers to look up: a key of a directory, a part of a key, a text
\* that holds a key, an identifier of nobody, and the empty identifier
LookupIds == {"8:alice", "alice", "orgid:8:alice@unq", "8:dave", ""}

\* the calls of _clean_html
CleanHtmlCalls ==
    {[html_str |-> html_str, properties |-> Null, cm |-> <<>>] :
        html_str \in {LinkMarkup(l) : l \in SingleLinks} \cup OtherMarkup}
    \cup {[html_str |-> ReplyMarkup(r), properties |-> Null, cm |-> cm] :
            r \in ReplyMarkups, cm \in Directories}
    \cup {[html_str |-> ForwardMarkup(f), properties |-> properties, cm |-> <<>>] :
            f \in ForwardMarkups, properties \in ForwardProperties}
    \cup {[html_str |-> html_str, properties |-> properties, cm |-> <<>>] :
            html_str \in MixedMarkup, properties \in {Null, Obj([originalMessageContext |->
                                                        Obj([sender |-> Str("Bob")])])}}

UnitCalls ==
    {UnitCall("_convert_timestamp", [val |-> v, for_datetime_attr |-> for_datetime_attr]) :
        v \in TimestampValues, for_datetime_attr \in BOOLEAN}
    \cup {UnitCall("_calculate_call_duration",
                   [start_time |-> start_time, end_time |-> end_time]) :
            start_time \in EndpointValues, end_time \in EndpointValues}
    \cup {UnitCall("_extract_props", [props |-> Obj([mentions |-> List(q)])]) :
            q \in ListsOver[Fragments, MaxFragments]}
    \cup {UnitCall("_process_regular_message",
                   [msg |-> Obj([id |-> Str("m1"), messageType |-> Str(body.messageType),
                                 content |-> Str(body.content), properties |-> properties]),
                    conversation_id |-> ChatId]) :
            properties \in AttachmentProperties, body \in MessageBodies}
    \cup {UnitCall("_clean_html", args) : args \in CleanHtmlCalls}
    \cup {UnitCall("_get_contact_name_by_id", [cm |-> cm, user_id |-> Str(user_id)]) :
            cm \in Directories, user_id \in LookupIds}

UnitInit ==
    /\ unit \in UnitCalls
    /\ NoExtraction
    /\ jsonFiles = <<>>
    /\ conversationFiles = <<>> /\ peopleFiles = <<>> /\ otherFiles = <<>>
    /\ pc = "unit" /\ phase = "people" /\ fileIdx = 1 /\ recIdx = 1
    /\ counters = InitialCounters
    /\ cancelled = FALSE
    /\ contacts_map = <<>> /\ conversation_tenant_map = <<>>
    /\ artifacts = <<>> /\ posted = <<>> /\ result = "none"
    /\ started = <<>> /\ handled = <<>> /\ calls = <<>> /\ cancelMark = -1

Returns(value) ==
    /\ unit' = [unit EXCEPT !.returned = TRUE, !.value = value]
    /\ UNCHANGED <<extraction, jsonFiles, conversationFiles, peopleFiles, otherFiles, pc, phase, fileIdx,
                   recIdx, counters, cancelled, contacts_map, conversation_tenant_map,
                   artifacts, posted, result, started, handled, calls, cancelMark>>

\* _convert_timestamp(val, for_datetime_attr)
CallConvertTimestamp ==
    /\ unit.fn = "_convert_timestamp" /\ ~unit.returned
    /\ Returns(IF unit.args.for_datetime_attr THEN ConvertTimestampEpoch[unit.args.val]
               ELSE ConvertTimestampDisplay[unit.args.val])

\* _calculate_call_duration(start_time, end_time)
CallCalculateCallDuration ==
    /\ unit.fn = "_calculate_call_duration" /\ ~unit.returned
    /\ Returns(CalculateCallDuration[unit.args.start_time, unit.args.end_time])

\* _extract_props(props): (link_urls, file_min, mention_min)
CallExtractProps ==
    /\ unit.fn = "_extract_props" /\ ~unit.returned
    /\ Returns(ExtractProps[unit.args.props])

\* _process_regular_message(msg, conversation_id, jsonFile, bb) with empty
\* contact and tenant maps: the artifacts it indexed
CallProcessRegularMessage ==
    /\ unit.fn = "_process_regular_message" /\ ~unit.returned
    /\ Returns(ProcessRegularMessage[unit.args.msg, unit.args.conversation_id, <<>>, <<>>])

\* _clean_html(html_str, properties) with the contact directory cm
CallCleanHtml ==
    /\ unit.fn = "_clean_html" /\ ~unit.returned
    /\ Returns(Str(CleanHtml[unit.args.html_str, unit.args.properties, unit.args.cm]))

\* _get_contact_name_by_id(user_id) with contacts_map = cm
CallGetContactNameById ==
    /\ unit.fn = "_get_contact_name_by_id" /\ ~unit.returned
    /\ Returns(GetContactNameById[unit.args.cm, unit.args.user_id])

UnitNext ==
    \/ CallCleanHtml
    \/ CallGetContactNameById
    \/ CallConvertTimestamp
    \/ CallCalculateCallDuration
    \/ CallExtractProps
    \/ CallProcessRegularMessage

UnitSpec == UnitInit /\ [][UnitNext]_vars


(***************************************************************************)
(* replychains_extraction (src/data-extraction/replychains-extraction.py):  *)
(* the two scans over the records of a LevelDB folder or file.  A step is   *)
(* one record read, the end of one file, or the test between the scans.     *)
(***************************************************************************)
\* the key prefix of an IndexedDB key
KeyPrefix(database_id, object_store_id, index_id) ==
    [database_id |-> database_id, object_store_id |-> object_store_id, index_id |-> index_id]

\* A record as IndexedDBRecord.FromFile yields it: its offset, its key (the
\* object store name, Null on a key that has none, and the key prefix, Null
\* when the key has none) and whether to_serializable accepts it.
DbRecord(offset, object_store_name, key_prefix, serializable) ==
    [offset |-> offset,
     key |-> [object_store_name |-> object_store_name, key_prefix |-> key_prefix],
     serializable |-> serializable]

\* the records a file can hold: the names of the object stores "replychains"
\* (databases 1 and 2) and "people", a key named "replychains" that is not a
\* name entry, data of both databases at index 1 and at index 2, a key with
\* no prefix, and a data entry that cannot be serialized
DbRecords ==
    {DbRecord(10, Str("replychains"), KeyPrefix(1, 0, 0), TRUE),
     DbRecord(11, Str("replychains"), KeyPrefix(2, 1, 0), TRUE),
     DbRecord(12, Str("people"), KeyPrefix(2, 0, 0), TRUE),
     DbRecord(20, Null, KeyPrefix(1, 1, 1), TRUE),
     DbRecord(21, Null, KeyPrefix(1, 1, 2), TRUE),
     DbRecord(22, Null, KeyPrefix(2, 1, 1), TRUE),
     DbRecord(23, Null, Null, TRUE),
     DbRecord(24, Null, KeyPrefix(1, 1, 1), FALSE)}

\* how many files the folder holds and how many records a file yields at most
MaxDbFiles == 2

MaxDbRecords == 2

\* A file of the folder: whether its name is one of a LevelDB file
\* (is_leveldb_file), the records FromFile yields, and whether FromFile
\* raises after them.
DbFiles ==
    [leveldb : {TRUE}, raises : BOOLEAN, recs : ListsOver[DbRecords, MaxDbRecords]]
    \cup [leveldb : {FALSE}, raises : {FALSE},
          recs : {<<DbRecord(10, Str("replychains"), KeyPrefix(1, 0, 0), TRUE)>>}]

\* the paths: a folder of files, or one file
Paths ==
    [is_dir : {TRUE}, files : ListsOver[DbFiles, MaxDbFiles]]
    \cup [is_dir : {FALSE}, files : {<<f>> : f \in DbFiles}]

\* "files = [f for f in path.iterdir() if f.is_file() and is_leveldb_file(f)]"
\* for a folder, the path itself otherwise
ScannedFiles ==
    IF leveldb.is_dir THEN SelectSeq(leveldb.files, LAMBDA f : f.leveldb) ELSE leveldb.files

ExtractInit ==
    /\ leveldb \in Paths
    /\ scan = [step |-> "names", f |-> 1, r |-> 1]
    /\ database_ids = {} /\ records = <<>> /\ output_json = <<>>
    /\ unit = [fn |-> "none"]
    /\ jsonFiles = <<>>
    /\ conversationFiles = <<>> /\ peopleFiles = <<>> /\ otherFiles = <<>>
    /\ pc = "extraction" /\ phase = "people" /\ fileIdx = 1 /\ recIdx = 1
    /\ counters = InitialCounters
    /\ cancelled = FALSE
    /\ contacts_map = <<>> /\ conversation_tenant_map = <<>>
    /\ artifacts = <<>> /\ posted = <<>> /\ result = "none"
    /\ started = <<>> /\ handled = <<>> /\ calls = <<>> /\ cancelMark = -1

IngestUnchanged ==
    UNCHANGED <<unit, jsonFiles, conversationFiles, peopleFiles, otherFiles, pc, phase, fileIdx,
                recIdx, counters, cancelled, contacts_map, conversation_tenant_map, artifacts,
                posted, result, started, handled, calls, cancelMark>>

\* the scan is at a record of a file
AtRecord(step) ==
    /\ scan.step = step
    /\ scan.f <= Len(ScannedFiles)
    /\ scan.r <= Len(ScannedFiles[scan.f].recs)

\* The end of "for rec in record_iter": FromFile raises or is exhausted.  In
\* a folder the exception is caught and the next file is read (the [WARN]
\* line); for a single file nothing catches it.
FileEnds ==
    /\ scan.f <= Len(ScannedFiles)
    /\ scan.r > Len(ScannedFiles[scan.f].recs)
    /\ scan' = IF ScannedFiles[scan.f].raises /\ ~leveldb.is_dir
               THEN [scan EXCEPT !.step = "crashed"]
               ELSE [scan EXCEPT !.f = @ + 1, !.r = 1]
    /\ UNCHANGED <<leveldb, database_ids, records, output_json>>
    /\ IngestUnchanged

\* the test of save_nameskey_records: the key names the object store
\* "replychains" and its prefix has object_store_id 0 and index_id 0
IsNamesKey(key) ==
    /\ key.object_store_name = Str("replychains")
    /\ key.key_prefix # Null
    /\ key.key_prefix.object_store_id = 0 /\ key.key_prefix.index_id = 0

\* one iteration of save_nameskey_records
NamesRecord ==
    /\ AtRecord("names")
    /\ LET key == ScannedFiles[scan.f].recs[scan.r].key
       IN  database_ids' = IF IsNamesKey(key)
                           THEN database_ids \cup {key.key_prefix.database_id}
                           ELSE database_ids
    /\ scan' = [scan EXCEPT !.r = @ + 1]
    /\ UNCHANGED <<leveldb, records, output_json>>
    /\ IngestUnchanged

\* the first scan has read the records of a file
NamesFileEnds ==
    /\ scan.step = "names"
    /\ FileEnds

\* "if not database_ids": records, which is empty, is written by json.dump
\* and the function returns; otherwise the second scan starts
AfterNames ==
    /\ scan.step = "names"
    /\ scan.f > Len(ScannedFiles)
    /\ IF database_ids = {}
       THEN /\ output_json' = records
            /\ scan' = [scan EXCEPT !.step = "done"]
       ELSE /\ scan' = [step |-> "data", f |-> 1, r |-> 1]
            /\ UNCHANGED output_json
    /\ UNCHANGED <<leveldb, database_ids, records>>
    /\ IngestUnchanged

\* A variant that keeps the entries of every index; the index of the
\* output entries is to fail against it.
IsDataKeyOfAnyIndex(kp, ids) == kp # Null /\ kp.database_id \in ids

\* the test of save_datakey_records: "kp and kp.database_id in database_ids
\* and kp.index_id == 1"
IsDataKey(kp, ids) == kp # Null /\ kp.database_id \in ids /\ kp.index_id = 1

\* the entry save_datakey_records appends for a record, without its key and
\* its value
OutputEntry(rec) ==
    [offset |-> rec.offset, database_id |-> rec.key.key_prefix.database_id,
     object_store_id |-> rec.key.key_prefix.object_store_id,
     index_id |-> rec.key.key_prefix.index_id]

\* one iteration of save_datakey_records; a record that to_serializable
\* rejects is reported and left out
DataRecord ==
    /\ AtRecord("data")
    /\ LET rec == ScannedFiles[scan.f].recs[scan.r]
       IN  records' = IF IsDataKey(rec.key.key_prefix, database_ids) /\ rec.serializable
                      THEN Append(records, OutputEntry(rec))
                      ELSE records
    /\ scan' = [scan EXCEPT !.r = @ + 1]
    /\ UNCHANGED <<leveldb, database_ids, output_json>>
    /\ IngestUnchanged

\* the second scan has read the records of a file
DataFileEnds ==
    /\ scan.step = "data"
    /\ FileEnds

\* the json.dump at the end of replychains_extraction
WriteOutput ==
    /\ scan.step = "data"
    /\ scan.f > Len(ScannedFiles)
    /\ output_json' = records
    /\ scan' = [scan EXCEPT !.step = "done"]
    /\ UNCHANGED <<leveldb, database_ids, records>>
    /\ IngestUnchanged

ExtractNext ==
    \/ NamesRecord
    \/ NamesFileEnds
    \/ AfterNames
    \/ DataRecord
    \/ DataFileEnds
    \/ WriteOutput

ExtractSpec == ExtractInit /\ [][ExtractNext]_vars


(***************************************************************************)
(* Properties                                                              *)
(***************************************************************************)

\* the elements of a sequence
Entries(q) == {q[i] : i \in 1..Len(q)}

\* the values an artifact carries for an attribute
AttrValues(a, name) == {a.attrs[i][2] : i \in {j \in 1..Len(a.attrs) : a.attrs[j][1] = name}}

\* the kinds of the primary entities among the artifacts of a call
PrimaryKindsOf(c) ==
    LET q == SelectSeq(c.primary, LAMBDA a : a.kind \in PrimaryKinds)
    IN  [i \in 1..Len(q) |-> q[i].kind]

\* the files of the run that have a given name
FilesNamed(name) == {d \in Entries(jsonFiles) : Basename(d) = name}

\* the files opened before the i-th
StartedBefore(i) == {started[j] : j \in 1..(i - 1)}

\* C1: a conversations document is opened only after every people document
\* of the run, and any other document only after every people and every
\* conversations document of the run, whatever the order of jsonFiles.
C1_CategoryOrder ==
    \A i \in 1..Len(started) :
        /\ Basename(started[i]) # "output_people.json"
              => FilesNamed("output_people.json") \subseteq StartedBefore(i)
        /\ Basename(started[i]) \notin {"output_people.json", "output_conversations.json"}
              => FilesNamed("output_conversations.json") \subseteq StartedBefore(i)

\* a run that found a message file first, a conversations file next and a
\* people file last, and processed all three
C1_Witness ==
    /\ pc = "done"
    /\ jsonFiles = <<5, 3, 1>>
    /\ started = <<1, 3, 5>>

\* enrich(id) as the specification states it: "id (n)" for a directory entry
\* id -> n, the identifier itself otherwise
EnrichAsStated(cm, id) ==
    IF id \in DOMAIN cm THEN Str(PyStr[id] \o " (" \o PyStr[cm[id]] \o ")") ELSE id

\* C2: the creator attribute of every Message and MeetingEvent is the creator
\* identifier enriched from the directory: "id (n)" once the contact record
\* id -> n has been processed, the identifier unchanged when no entry matches.
C2_CreatorEnriched ==
    \A e \in Entries(calls) :
        \A a \in Entries(e.call.primary) :
            (a.kind \in {"TSK_TEAMS_MESSAGE", "TSK_TEAMS_EVENTCALL"}
             /\ IsString(Get[e.call.msg, "creator", Null]))
                => AttrValues(a, "TSK_TEAMS_CREATOR")
                      = {EnrichAsStated(contacts_map, Get[e.call.msg, "creator", Null])}

\* the primary entity the classification yields by message kind alone
KindClass(msg) ==
    LET msg_type == Get[msg, "messageType", EmptyStr]
    IN  IF msg_type \in {Str("RichText/Media_CallRecording"),
                         Str("RichText/Media_CallTranscript")} THEN <<"TSK_TEAMS_CALLLOG_MSG">>
        ELSE IF msg_type = Str("Event/Call") THEN <<"TSK_TEAMS_EVENTCALL">>
        ELSE IF msg_type \in {Str("Text"), Str("RichText/Html")} THEN <<"TSK_TEAMS_MESSAGE">>
        ELSE <<>>

\* the calls whose primary builder returned
Classified == {e \in Entries(calls) : IsDict(e.call.msg) /\ e.call.reacted}

RECURSIVE ReactionPairs(_)
ReactionPairs(values) ==
    IF Len(values) = 0 THEN <<>>
    ELSE LET users == Get[Get[values[1], "users", EmptyObj], "values", EmptyList].l
         IN  [i \in 1..Len(users) |-> [type |-> Get[values[1], "key", Null], user |-> users[i]]]
             \o ReactionPairs(Tail(values))

\* the pairs of the reaction structure of a message
PairsOf(msg) ==
    ReactionPairs(Get[Get[Get[msg, "properties", EmptyObj], "emotions", EmptyObj],
                      "values", EmptyList].l)

\* the Reaction the specification states for a pair: the type, the user
\* enriched from the directory, the time in epoch seconds when there is one
IsStatedReaction(a, pair, cm) ==
    LET ts == ConvertTimestampEpoch[Get[pair.user, "time", Null]]
    IN  /\ a.kind = "TSK_TEAMS_REACTION"
        /\ AttrValues(a, "TSK_TEAMS_REACTION_TYPE") = {pair.type}
        /\ AttrValues(a, "TSK_TEAMS_REACTION_MRI")
              = {EnrichAsStated(cm, Get[pair.user, "mri", EmptyStr])}
        /\ AttrValues(a, "TSK_TEAMS_REACTION_TIME") = (IF Truthy[ts] THEN {ts} ELSE {})

\* C4: the reaction pass runs for every message-like record, whatever its
\* primary classification, and emits exactly one Reaction per (reaction type,
\* user) pair of the record, with the user enriched from the directory and
\* the time in epoch seconds.
C4_ReactionPass ==
    \A e \in Entries(calls) :
        IsDict(e.call.msg) =>
            /\ e.call.reacted
            /\ ~e.call.raised =>
                  /\ Len(e.call.reactions) = Len(PairsOf(e.call.msg))
                  /\ \A i \in 1..Len(e.call.reactions) :
                        IsStatedReaction(e.call.reactions[i], PairsOf(e.call.msg)[i],
                                         contacts_map)

\* C5: once the job is cancelled no further raw record is processed: the
\* records processed are those processed when the signal was raised, in a
\* people, a conversations or a message document alike.
C5_StopsAtCancellation == cancelMark # -1 => Len(handled) = cancelMark

\* the messages posted for a file
PostedFor(d, type) == {m \in Entries(posted) : m.file = d /\ m.type = type}

\* C6: process() eventually returns OK, and unless the job was cancelled every
\* document of the run has been opened by then, the documents that follow one
\* that failed to load or held a malformed record included.
C6_RunCompletes ==
    <>(/\ pc = "done"
       /\ result = "OK"
       /\ cancelMark = -1 => Entries(jsonFiles) \subseteq Entries(started))

\* a run that returned OK after three documents: the first cannot be loaded,
\* the second raises in one of its records, the third is processed after both
C6_Witness ==
    /\ pc = "done" /\ result = "OK" /\ cancelMark = -1
    /\ Len(started) = 3
    /\ ~Library[started[1]].loads
    /\ Library[started[2]].loads /\ PostedFor(started[2], "ERROR") # {}
    /\ \E h \in Entries(handled) : h.file = started[3] /\ ~h.raised

\* the identifiers a people document would add to the directory
ContactIdsOf(d) ==
    IF Basename(d) # "output_people.json" THEN {}
    ELSE {Get[rec.o["value"], "mri", Null] :
            rec \in {r \in Entries(Library[d].records) :
                        IsDict(r) /\ Has(r, "value") /\ IsDict(r.o["value"])}}

\* the identifiers a conversations document would add to the tenant map
ThreadIdsOf(d) ==
    IF Basename(d) # "output_conversations.json" THEN {}
    ELSE {Get[rec.o["value"].o["value"], "id", Null] :
            rec \in {r \in Entries(Library[d].records) :
                        /\ IsDict(r) /\ Has(r, "value") /\ IsDict(r.o["value"])
                        /\ Has(r.o["value"], "value") /\ IsDict(r.o["value"].o["value"])}}

\* C7: a document for which the error message was posted has no artifact on
\* the blackboard and no entry in the directory or in the tenant map.
C7_ErrorLeavesNothing ==
    \A m \in Entries(posted) :
        m.type = "ERROR" =>
            /\ \A a \in Entries(artifacts) : a.file # m.file
            /\ ContactIdsOf(m.file) \cap DOMAIN contacts_map = {}
            /\ ThreadIdsOf(m.file) \cap DOMAIN conversation_tenant_map = {}

\* C8: a Text record of conversation "48:calllogs" with a call-log property
\* yields its CallLogConversation and goes through the reaction pass without
\* an exception, whatever the call-log property holds.
C8_BlobNeverAborts ==
    \A e \in Entries(calls) :
        (/\ IsDict(e.call.msg)
         /\ e.call.conversation_id = CallLogConversation
         /\ IsCallLogRecord[e.call.msg])
            => /\ ~e.call.raised
               /\ e.call.reacted
               /\ PrimaryKindsOf(e.call) = <<"TSK_TEAMS_CALLLOG_CONV">>

\* C9: when a run that was not cancelled has returned, every record of every
\* document that could be loaded has been processed without an exception:
\* a malformed fragment stops neither its record nor the records after it.
C9_EveryRecordProcessed ==
    (pc = "done" /\ cancelMark = -1) =>
        \A d \in {f \in Entries(jsonFiles) : Library[f].loads} :
            \A r \in 1..Len(Library[d].records) :
                [file |-> d, rec |-> r, raised |-> FALSE] \in Entries(handled)

\* C10: no artifact on the blackboard has an attribute whose value is null.
C10_NoNullAttribute ==
    \A a \in Entries(artifacts) :
        \A i \in 1..Len(a.attrs) : a.attrs[i][2] # Null

\* the raw record a loop iteration handled
RecordOf(h) == Library[h.file].records[h.rec]

\* the thread records processed so far that name a thread and a tenant, as
\* positions of handled
TenantWrites(k) ==
    {i \in 1..Len(handled) :
        /\ Basename(handled[i].file) = "output_conversations.json"
        /\ ~handled[i].raised
        /\ IsDict(RecordOf(handled[i]))
        /\ IsDict(Get[RecordOf(handled[i]), "value", EmptyObj])
        /\ IsDict(Get[Get[RecordOf(handled[i]), "value", EmptyObj], "value", Null])
        /\ SafeStringExtract[Get[RecordOf(handled[i]).o["value"].o["value"], "id", Null]] = k
        /\ Truthy[Get[RecordOf(handled[i]), "tenant_id", Null]]}

\* the thread identifiers of the library
ThreadKeys == UNION {ThreadIdsOf(d) : d \in 1..Len(Library)}

\* C11: the tenant map holds, for each thread identifier, the tenant of the
\* most recent thread record with that identifier and a non-empty tenant; a
\* record with an empty or absent tenant changes nothing, and no entry is
\* empty.
C11_TenantMap ==
    /\ DOMAIN conversation_tenant_map = {k \in ThreadKeys : TenantWrites(k) # {}}
    /\ \A k \in DOMAIN conversation_tenant_map :
           /\ conversation_tenant_map[k]
                 = Get[RecordOf(handled[Max[TenantWrites(k)]]), "tenant_id", Null]
           /\ Truthy[conversation_tenant_map[k]]

\* a thread was given a second tenant, and a record of that thread with an
\* empty tenant and one without a tenant were processed after it
C11_Witness ==
    /\ ChatId \in DOMAIN conversation_tenant_map
    /\ conversation_tenant_map[ChatId] = Str("tenant-1")
    /\ \E i \in 1..Len(handled) :
           /\ handled[i] = [file |-> 3, rec |-> 5, raised |-> FALSE]
           /\ Cardinality(TenantWrites(ChatId)) = 2

\* the last loop iteration handled, once the step has been taken
Latest == handled'[Len(handled')]

\* the step handles a contact record that names a contact and a display name
StoresContact ==
    /\ handled' # handled
    /\ Basename(Latest.file) = "output_people.json"
    /\ ~Latest.raised
    /\ IsDict(RecordOf(Latest))
    /\ IsDict(Get[RecordOf(Latest), "value", Null])
    /\ Truthy[Get[RecordOf(Latest).o["value"], "mri", EmptyStr]]
    /\ Truthy[Get[RecordOf(Latest).o["value"], "displayname", EmptyStr]]

\* C12: no step removes a key of the directory; a step that processes a
\* contact record with a non-empty identifier and display name sets exactly
\* that key to that name, and every other step leaves the directory as it is.
C12_DirectoryGrows ==
    [][/\ DOMAIN contacts_map \subseteq DOMAIN contacts_map'
       /\ IF StoresContact
          THEN contacts_map'
                 = [k \in DOMAIN contacts_map
                             \cup {Get[RecordOf(Latest).o["value"], "mri", EmptyStr]} |->
                       IF k = Get[RecordOf(Latest).o["value"], "mri", EmptyStr]
                       THEN Get[RecordOf(Latest).o["value"], "displayname", EmptyStr]
                       ELSE contacts_map[k]]
          ELSE contacts_map' = contacts_map]_vars

\* a contact was given a second display name, a contact without a display
\* name was processed, and thread and message records after them
C12_Witness ==
    /\ DOMAIN contacts_map = {Str("8:alice"), Str("8:bob")}
    /\ contacts_map[Str("8:alice")] = Str("Alice Smith")
    /\ [file |-> 1, rec |-> 4, raised |-> FALSE] \in Entries(handled)
    /\ \E h \in Entries(handled) : Basename(h.file) = "output_conversations.json"
    /\ calls # <<>>

\* the artifacts on the blackboard that were derived from one raw record
ArtifactsOf(d, r) == SelectSeq(artifacts, LAMBDA a : a.file = d /\ a.rec = r)

ThreadKinds ==
    {"TSK_TEAMS_GROUP_CHAT", "TSK_TEAMS_PRIVATE_CHAT", "TSK_TEAMS_TEAMS_CHAT",
     "TSK_TEAMS_THREADINFO"}

SecondaryKinds == {"TSK_TEAMS_MSG_ATTACHMENT", "TSK_TEAMS_MENTION", "TSK_TEAMS_REACTION"}

\* a record of a conversations document that carries a thread value
IsThreadRecord(rec) ==
    IsDict(rec) /\ IsDict(Get[rec, "value", Null]) /\ Has(rec.o["value"], "value")

\* a record of a people document that carries a contact value
IsContactRecord(rec) == IsDict(rec) /\ Has(rec, "value")

\* C13: every artifact comes from one raw record that was processed; every
\* thread record processed has exactly one Thread artifact and every contact
\* record exactly one Contact artifact; a message has at most one primary
\* artifact, and its other artifacts are attachments, mentions and reactions.
C13_Cardinality ==
    /\ \A a \in Entries(artifacts) :
           \E h \in Entries(handled) : h.file = a.file /\ h.rec = a.rec
    /\ \A h \in Entries(handled) :
           /\ (Basename(h.file) = "output_conversations.json" /\ IsThreadRecord(RecordOf(h)))
                 => /\ Len(ArtifactsOf(h.file, h.rec)) = 1
                    /\ ArtifactsOf(h.file, h.rec)[1].kind \in ThreadKinds
           /\ (Basename(h.file) = "output_people.json" /\ IsContactRecord(RecordOf(h)))
                 => /\ Len(ArtifactsOf(h.file, h.rec)) = 1
                    /\ ArtifactsOf(h.file, h.rec)[1].kind = "TSK_TEAMS_CONTACTS"
    /\ \A e \in Entries(calls) :
           /\ Len(PrimaryKindsOf(e.call)) <= 1
           /\ \A a \in Entries(e.call.primary) \cup Entries(e.call.reactions) :
                  a.kind \in PrimaryKinds \cup SecondaryKinds


\* the kind the suffix of a thread identifier stands for
KindBySuffix(id) ==
    IF EndsWith[id, "@thread.v2"] THEN "TSK_TEAMS_GROUP_CHAT"
    ELSE IF EndsWith[id, "@unq.gbl.spaces"] THEN "TSK_TEAMS_PRIVATE_CHAT"
    ELSE IF EndsWith[id, "@thread.tacv2"] THEN "TSK_TEAMS_TEAMS_CHAT"
    ELSE "TSK_TEAMS_THREADINFO"

\* the identifier of the thread a raw thread record carries
ThreadIdOfRecord(rec) == SafeStringExtract[Get[rec.o["value"].o["value"], "id", Null]].s

ThreadArtifacts == {a \in Entries(artifacts) : Basename(a.file) = "output_conversations.json"}

\* C14: the artifact of a thread record has the kind that the suffix of the
\* record's thread identifier stands for (the generic kind for any other
\* identifier, the empty one included), and it carries a team identifier only
\* if that kind is Teams Channel.
C14_ThreadClassification ==
    \A a \in ThreadArtifacts :
        /\ a.kind = KindBySuffix(ThreadIdOfRecord(Library[a.file].records[a.rec]))
        /\ AttrValues(a, "TSK_TEAMS_TEAMID") # {} => a.kind = "TSK_TEAMS_TEAMS_CHAT"

\* threads of all four kinds are on the blackboard, one of them with an empty
\* identifier, one a channel with its team identifier, and one a thread of
\* another kind whose record names a team
C14_Witness ==
    /\ {a.kind : a \in ThreadArtifacts} = ThreadKinds
    /\ \E a \in ThreadArtifacts : ThreadIdOfRecord(Library[a.file].records[a.rec]) = ""
    /\ \E a \in ThreadArtifacts : AttrValues(a, "TSK_TEAMS_TEAMID") = {Str("team-7")}
    /\ \E a \in ThreadArtifacts :
           /\ a.kind # "TSK_TEAMS_TEAMS_CHAT"
           /\ Truthy[Get[Library[a.file].records[a.rec].o["value"].o["value"], "teamId", Null]]

\* C15: every artifact emitted, of every kind, carries a Tenant ID attribute.
C15_TenantIdEverywhere ==
    \A a \in Entries(artifacts) : AttrValues(a, "TSK_TEAMS_TENANTID") # {}

\* the number a numeric timestamp stands for, by sign and magnitude
NumberOf(val) == IF val.t = "str" THEN ParseWide[Strip[val.s]] ELSE AsWide[val]

IsNumericInput(val) == val.t \in {"num", "wide"} \/ (val.t = "str" /\ IsNumeral[Strip[val.s]])

\* the calls of _convert_timestamp on a number, for the epoch value (the
\* number 0 counts as an absent value)
EpochOfNumber ==
    /\ unit.fn = "_convert_timestamp" /\ unit.returned
    /\ unit.args.for_datetime_attr
    /\ IsNumericInput(unit.args.val) /\ Truthy[unit.args.val]

\* C16: a numeric timestamp whose magnitude exceeds 9,999,999,999 is divided
\* by 1000, any other is taken as seconds, and the epoch value returned is
\* that number truncated to whole seconds; negative numbers follow the rule by
\* their magnitude.
C16_MillisecondDetection ==
    EpochOfNumber =>
        LET v == NumberOf(unit.args.val)
        IN  unit.value = FromWide[IF v.hi > 99999 THEN WideDivMod[v, 1000].q ELSE v]

\* an endpoint normalised to whole seconds: Null when it cannot be parsed
SecondsOf(endpoint) ==
    LET p == ParseTimestampToSeconds[endpoint] IN IF p.raised THEN Null ELSE p.v

\* a number of seconds as HH:MM:SS
Clock(d) == Pad2[d \div 3600] \o ":" \o Pad2[(d % 3600) \div 60] \o ":" \o Pad2[d % 60]

\* C17: the duration between two endpoints that parse to the seconds s and e
\* is the text HH:MM:SS of e - s when e - s >= 0, equal endpoints and the
\* epoch second 0 included; it is none when e - s < 0 or when an endpoint
\* does not parse.
C17_Duration ==
    (unit.fn = "_calculate_call_duration" /\ unit.returned) =>
        LET s == SecondsOf(unit.args.start_time)
            e == SecondsOf(unit.args.end_time)
        IN  unit.value = IF s # Null /\ e # Null /\ e.n - s.n >= 0
                         THEN Str(Clock(e.n - s.n)) ELSE Null

\* the fragments of a call of _extract_props
FragmentsOf(props) == IF Has(props, "mentions") THEN props.o["mentions"].l ELSE <<>>

\* the identifiers among fragments
IdentifiersOf(q) == {q[i].o["mri"] : i \in 1..Len(q)} \ {EmptyStr}

\* the display-name parts of an identifier, in input order
PartsOf(q, mri) ==
    LET own == SelectSeq(q, LAMBDA m : m.o["mri"] = mri)
    IN  [i \in 1..Len(own) |-> own[i].o["displayName"].s]

\* the non-empty parts joined by single spaces
JoinedParts(parts) == Join[" ", SelectSeq(parts, LAMBDA part : part # "")]

\* the parts without the blanks around them, the blank ones left out, joined
\* by single spaces, and no space before a comma, after "(" or before ")"
TidiedParts(parts) ==
    LET trimmed == [i \in 1..Len(parts) |-> Strip[parts[i]]]
        full == Join[" ", SelectSeq(trimmed, LAMBDA part : part # "")]
    IN  ReplaceAll[ReplaceAll[ReplaceAll[full, " ,", ","], "( ", "("], " )", ")"]

\* the mentions a call of _extract_props returned, as identifier and name
MentionsReturned ==
    {<<unit.value.mention_min[i].mri, unit.value.mention_min[i].displayName.s>> :
        i \in 1..Len(unit.value.mention_min)}

ExtractedMentions == unit.fn = "_extract_props" /\ unit.returned

\* C18 as stated: one merged mention for every distinct identifier, named by
\* the non-empty parts of its fragments in input order joined by single
\* spaces, and no more mentions than identifiers.
C18_AsStated ==
    ExtractedMentions =>
        LET q == FragmentsOf(unit.args.props)
        IN  /\ MentionsReturned = {<<mri, JoinedParts(PartsOf(q, mri))>> : mri \in IdentifiersOf(q)}
            /\ Len(unit.value.mention_min) <= Cardinality(IdentifiersOf(q))

\* C18: one merged mention for every distinct identifier that has a part
\* which is not blank, and none for the others; its name is the parts
\* trimmed, the blank ones left out, joined in input order by single spaces,
\* with the space before a comma, after "(" and before ")" removed; there are
\* no more mentions than identifiers.
C18_MentionMerging ==
    ExtractedMentions =>
        LET q == FragmentsOf(unit.args.props)
            named == {mri \in IdentifiersOf(q) : TidiedParts(PartsOf(q, mri)) # ""}
        IN  /\ MentionsReturned = {<<mri, TidiedParts(PartsOf(q, mri))>> : mri \in named}
            /\ Len(unit.value.mention_min) = Cardinality(named)
            /\ Len(unit.value.mention_min) <= Cardinality(IdentifiersOf(q))

\* two fragments of one identifier were merged into one mention whose name
\* lost the space before its comma, and an identifier with a blank part only
\* got no mention
C18_Witness ==
    /\ ExtractedMentions
    /\ FragmentsOf(unit.args.props)
          = <<Fragment("8:jane", "Doe"), Fragment("8:jane", ", Jr."), Fragment("8:bob", " ")>>
    /\ MentionsReturned = {<<Str("8:jane"), "Doe, Jr.">>}
    /\ Len(unit.value.mention_min) = 1

\* the elements of a list property of a message, none when it is absent
ElementsOf(properties, key) ==
    IF Has(properties, key) /\ IsList(properties.o[key]) THEN Entries(properties.o[key].l) ELSE {}

\* the has-attachment flags of the Message artifacts a call returned
FlagsReturned ==
    UNION {AttrValues(a, "TSK_TEAMS_HAS_ATTACHMENT") :
             a \in {x \in Entries(unit.value.arts) : x.kind = "TSK_TEAMS_MESSAGE"}}

\* C19: the has-attachment flag of a Message is "yes" exactly when the
\* properties hold a link with a url (or, failing that, an itemid), a file,
\* or a blur-hash list that is not empty; it is "no" otherwise.
C19_AttachmentFlag ==
    (unit.fn = "_process_regular_message" /\ unit.returned) =>
        LET properties == unit.args.msg.o["properties"]
            linked == \E l \in ElementsOf(properties, "links") :
                         Truthy[Get[l, "url", Null]] \/ Truthy[Get[l, "itemid", Null]]
            filed == ElementsOf(properties, "files") # {}
            hashed == ElementsOf(properties, "blurHash") # {}
        IN  FlagsReturned = {IF linked \/ filed \/ hashed THEN Str("yes") ELSE Str("no")}

\* C20: a markup that is one hyperlink, with or without one paragraph around
\* it, renders to exactly the target of the link, as it is written and
\* without the label; the generic handling has no part in it.
C20_SingleHyperlink ==
    (unit.fn = "_clean_html" /\ unit.returned) =>
        \A l \in SingleLinks :
            unit.args.html_str = LinkMarkup(l) => unit.value = Str(l.target)

\* the paragraph that holds nothing but the link to https://x/y was rendered
\* to that target
C20_Witness ==
    /\ unit.fn = "_clean_html" /\ unit.returned
    /\ unit.args.html_str = "<p><a href=\"https://x/y\">click</a></p>"
    /\ unit.value = Str("https://x/y")

\* what render gives for a markup on its own, with the directory of the call
Rendered(markup) == CleanHtml[markup, Null, unit.args.cm]

\* the participant quoted by the reply r is not in the directory of the call
NoResolvableSender(r) == r.itemid = "" \/ Str(r.itemid) \notin DOMAIN unit.args.cm

\* C21: a markup with a Reply block quoting sender S with body Q, followed by
\* content T, and with no resolvable sender identifier, renders to the label
\* "In reply to S:" in bold, a space, the rendered Q, a blank line and the
\* rendered T; the label is "In reply to message:" when the block names no
\* sender; content before the block is rendered and put in front, separated
\* by a blank line.  Nothing but the label is in bold.
C21_ReplyReconstruction ==
    (unit.fn = "_clean_html" /\ unit.returned) =>
        \A r \in ReplyMarkups :
            (unit.args.html_str = ReplyMarkup(r) /\ r.after # "" /\ NoResolvableSender(r)) =>
                unit.value =
                    Str((IF r.before # "" THEN Rendered(r.before) \o "\n\n" ELSE "")
                        \o BoldUnicode[IF r.sender = "" THEN "In reply to message:"
                                       ELSE "In reply to " \o Strip[r.sender] \o ":"]
                        \o " " \o Rendered(QuotedBody(r)) \o "\n\n" \o Rendered(r.after))

\* the reply that quotes Alice's "hi" and goes on with "ok" was rendered to
\* the bold label, " hi", a blank line and "ok"
C21_Witness ==
    /\ unit.fn = "_clean_html" /\ unit.returned
    /\ unit.args.html_str = Blockquote("Reply", "<strong>Alice</strong>hi") \o "ok"
    /\ unit.args.cm = <<>>
    /\ unit.value = Str(BoldUnicode["In reply to Alice:"] \o " hi\n\nok")

\* the markup holds a block of the given type ("reply" or "forward")
HoldsBlock(markup, itemtype) == BlockquoteSearch[markup, Lower[markup], itemtype].ok

\* what the reply branch makes of a markup that holds a Reply block
ByReplyBranch(markup) ==
    LET m == BlockquoteSearch[markup, Lower[markup], "reply"]
        parts == BlockquoteParts[markup, m, "reply"]
    IN  ProcessReplyBlockquote(m.group, unit.args.cm, parts.before, Rendered(parts.before),
                               Rendered(parts.quoted), Rendered(parts.after))

\* what the forward branch makes of a markup that holds a Forward block
ByForwardBranch(markup, properties) ==
    LET m == BlockquoteSearch[markup, Lower[markup], "forward"]
        parts == BlockquoteParts[markup, m, "forward"]
    IN  ProcessForwardBlockquote(properties, parts.before, Rendered(parts.before),
                                 Rendered(parts.quoted), Rendered(parts.after))

\* C25: the result of render comes from one branch, the first that applies
\* of: the single hyperlink, the reply block, the forward block, the generic
\* cleanup.  A markup that holds a Reply block and a Forward block goes to
\* the reply branch wherever the two blocks are, and the empty markup gives
\* the empty text.
C25_DispatchPriority ==
    (unit.fn = "_clean_html" /\ unit.returned) =>
        LET markup == unit.args.html_str
        IN  unit.value =
                Str(IF markup = "" THEN ""
                    ELSE IF MatchSimpleLink[markup].ok THEN MatchSimpleLink[markup].target
                    ELSE IF HoldsBlock(markup, "reply") THEN ByReplyBranch(markup)
                    ELSE IF HoldsBlock(markup, "forward")
                    THEN ByForwardBranch(markup, unit.args.properties)
                    ELSE ProcessRegularHtml[markup])

\* a Forward block that holds a Reply block was rendered by the reply branch:
\* the text in front of the Reply block, then the reply, and no label of a
\* forward although the message has an original-message context
C25_Witness ==
    /\ unit.fn = "_clean_html" /\ unit.returned
    /\ unit.args.html_str =
           Blockquote("Forward", "fw " \o Blockquote("Reply", "<strong>Alice</strong>hi")) \o "ok"
    /\ unit.args.properties = Obj([originalMessageContext |-> Obj([sender |-> Str("Bob")])])
    /\ unit.value = Str("fw\n\n" \o BoldUnicode["In reply to Alice:"] \o " hi\n\nok")

\* the original-message context of the side channel, Null when there is none
ContextOf(properties) ==
    IF properties # Null /\ IsDict(properties)
    THEN Get[properties, "originalMessageContext", Null] ELSE Null

\* the context names the sender and the arrival time of the original message
FullContext(ctx) ==
    /\ ctx # Null /\ IsDict(ctx)
    /\ Truthy[Get[ctx, "sender", Null]] /\ Truthy[Get[ctx, "clientArrivalTime", Null]]

\* the text a forward ends with: label, quoted text and, when the content
\* after the block renders to something, a blank line and that content
ForwardedText(f) ==
    BoldUnicode["Forwarded message:"] \o " " \o Rendered(f.quoted)
    \o (IF Rendered(f.after) # "" THEN "\n\n" \o Rendered(f.after) ELSE "")

\* C26: a markup with a Forward block (and no Reply block, and not a single
\* hyperlink) whose side channel has the original-message context renders
\* with the line "Original: <sender> <formatted time>" right before the
\* label "Forwarded message:", which the rendered quoted text follows; the
\* rendered content after the block is appended after a blank line only if
\* it is not empty; without the context there is no "Original:" line.
C26_ForwardReconstruction ==
    (unit.fn = "_clean_html" /\ unit.returned) =>
        \A f \in ForwardMarkups :
            (unit.args.html_str = ForwardMarkup(f) /\ f.quoted # "") =>
                LET ctx == ContextOf(unit.args.properties)
                    before == IF f.before # "" THEN Rendered(f.before) \o "\n\n" ELSE ""
                IN  /\ FullContext(ctx) =>
                          unit.value =
                              Str(before \o "Original: " \o PyStr[Get[ctx, "sender", Null]] \o " "
                                  \o ConvertTimestampDisplay[
                                         Get[ctx, "clientArrivalTime", Null]].s \o "\n"
                                  \o ForwardedText(f))
                    /\ ctx = Null =>
                          /\ unit.value = Str(before \o ForwardedText(f))
                          /\ ~Contains[unit.value.s, "Original:"]

\* a forward of "hi" with content before and after it, in a message whose
\* context names Bob and the arrival time, was rendered with the line about
\* the original right before the label
C26_Witness ==
    /\ unit.fn = "_clean_html" /\ unit.returned
    /\ unit.args.html_str = "<p>fyi</p>" \o Blockquote("Forward", "hi") \o "ok"
    /\ FullContext(ContextOf(unit.args.properties))
    /\ unit.value = Str("fyi\n\nOriginal: Bob 2023-11-14 22:13:20\n"
                        \o BoldUnicode["Forwarded message:"] \o " hi\n\nok")

\* every call of render that the call on markup leads to, at any depth,
\* gets a text shorter than the text of the call that makes it
Descends[markup \in STRING] ==
    \A nested \in NestedCalls(markup) : Len(nested) < Len(markup) /\ Descends[nested]

\* C28: render terminates: the reply and the forward branch call render on
\* the content before the block, on the quoted content and on the content
\* after the block, and each of these texts is strictly shorter than the
\* text of the caller, however the blocks are nested or repeated.
C28_RenderDescends ==
    (unit.fn = "_clean_html" /\ unit.returned) => Descends[unit.args.html_str]

\* render returned for two replies in a row: the call on the whole text
\* called render on the text after the first block, which holds the second
\* block and called render again
C28_Witness ==
    /\ unit.fn = "_clean_html" /\ unit.returned
    /\ unit.args.html_str = Blockquote("Reply", "<strong>Alice</strong>hi") \o "ok"
                                \o Blockquote("Reply", "<strong>Bob</strong>yes") \o "fine"
    /\ \E nested \in NestedCalls(unit.args.html_str) : NestedCalls(nested) # {}

\* the display name a directory entry holds
DisplayNameOf(entry) ==
    IF IsDict(entry) THEN PyOr[Get[entry, "displayName", Null], Get[entry, "name", Null]]
    ELSE entry

\* the keys of the directory cm that match the identifier id: the key that
\* is id, or else the keys that hold id or are held by it, none being empty
MatchingKeys(cm, id) ==
    IF id \in DOMAIN cm THEN {id}
    ELSE {k \in DOMAIN cm : /\ k.s # "" /\ id.s # ""
                             /\ (Contains[k.s, id.s] \/ Contains[id.s, k.s])}

\* C24: lookup(id) returns the display name stored under id when id is a key
\* of the directory, otherwise the display name of an entry whose key holds
\* id or is held by id (neither being empty), and none only when no entry
\* matches in either way; the label of a reply names the quoted participant
\* by this lookup.
C24_DirectoryLookup ==
    /\ (unit.fn = "_get_contact_name_by_id" /\ unit.returned) =>
          LET keys == MatchingKeys(unit.args.cm, unit.args.user_id)
          IN  IF keys = {} THEN unit.value = Null
              ELSE \E k \in keys : unit.value = DisplayNameOf(unit.args.cm[k])
    /\ (unit.fn = "_clean_html" /\ unit.returned) =>
          \A r \in ReplyMarkups :
              \A k \in MatchingKeys(unit.args.cm, Str(r.itemid)) :
                  (unit.args.html_str = ReplyMarkup(r) /\ r.sender # "" /\ r.before = "") =>
                      \E rest \in {Rendered(QuotedBody(r)) \o "\n\n" \o Rendered(r.after)} :
                          unit.value =
                              Str(Strip[BoldUnicode["In reply to " \o Strip[r.sender] \o " ("
                                                    \o PyStr[DisplayNameOf(unit.args.cm[k])]
                                                    \o "):"] \o " " \o rest])

\* the Attachment artifacts a call returned
AttachmentsReturned ==
    {x \in Entries(unit.value.arts) : x.kind = "TSK_TEAMS_MSG_ATTACHMENT"}

\* C29: for a regular message, an Attachment record is emitted exactly when
\* the has-attachment flag of its Message record is "yes", whatever the
\* attachment is: a link, a file, a blur hash or an AMSImage.
C29_FlagAgreesWithAttachments ==
    (unit.fn = "_process_regular_message" /\ unit.returned) =>
        (AttachmentsReturned # {} <=> FlagsReturned = {Str("yes")})

\* the artifacts the blackboard held before the step are still there, as
\* they were
RecordsKept ==
    /\ Len(artifacts') >= Len(artifacts)
    /\ \A i \in 1..Len(artifacts) : artifacts'[i] = artifacts[i]

\* the Message and MeetingEvent records made in the step for a creator that
\* no entry of the directory matched carry the identifier as it is
RawWhenUnknown ==
    \A i \in (Len(calls) + 1)..Len(calls') :
        \A a \in Entries(calls'[i].call.primary) :
            LET creator == Get[calls'[i].call.msg, "creator", Null]
            IN  (/\ a.kind \in {"TSK_TEAMS_MESSAGE", "TSK_TEAMS_EVENTCALL"}
                 /\ IsString(creator) /\ MatchingKeys(contacts_map, creator) = {})
                    => AttrValues(a, "TSK_TEAMS_CREATOR") = {creator}

\* C22: enrichment is never retroactive: a record processed while the
\* directory has no entry that matches its participant carries the raw
\* identifier, and no later operation changes a record that has been emitted.
C22_NeverRetroactive == [][RecordsKept /\ RawWhenUnknown]_vars

\* Dave's message was emitted with the raw identifier, the directory having
\* no entry for Dave, and the module went on to emit further records
C22_Witness ==
    \E i \in 1..Len(artifacts) :
        /\ artifacts[i].kind = "TSK_TEAMS_MESSAGE"
        /\ AttrValues(artifacts[i], "TSK_TEAMS_CREATOR") = {Str("8:dave")}
        /\ Str("8:dave") \notin DOMAIN contacts_map
        /\ \E j \in (i + 1)..Len(artifacts) : artifacts[j].file # artifacts[i].file

\* the kinds of primary record a category counts
KindsOf(category) ==
    CASE category = "messages" -> {"TSK_TEAMS_MESSAGE"}
      [] category = "calls_conv" -> {"TSK_TEAMS_CALLLOG_CONV"}
      [] category = "calls_msg" -> {"TSK_TEAMS_CALLLOG_MSG"}
      [] category = "meetings" -> {"TSK_TEAMS_EVENTCALL"}
      [] category = "threads" -> ThreadKinds
      [] category = "contacts" -> {"TSK_TEAMS_CONTACTS"}

\* how many records of these kinds the document d has on the blackboard
Emitted(d, kinds) == Len(SelectSeq(artifacts, LAMBDA a : a.file = d /\ a.kind \in kinds))

AllPrimaryKinds == UNION {KindsOf(category) : category \in DOMAIN InitialCounters}

\* the documents whose handling has ended
Closed == Entries(started) \ (IF pc = "records" THEN {OpenDoc} ELSE {})

\* the counts reported for the document d
ReportsOf(d) == {m \in Entries(posted) : m.type = "DATA" /\ m.file = d}

\* C27: for every document handled, the count of each category equals the
\* number of primary records of the category emitted for the document, the
\* reported count is their total, and a count is reported for every
\* document for which primary records were emitted.
C27_CountsAgree ==
    /\ pc = "records" =>
          \A category \in DOMAIN counters :
              counters[category] = Emitted(OpenDoc, KindsOf(category))
    /\ \A m \in Entries(posted) :
          m.type = "DATA" => m.total = Emitted(m.file, AllPrimaryKinds)
    /\ \A d \in Closed : Emitted(d, AllPrimaryKinds) > 0 => ReportsOf(d) # {}

\* the database ids of the "replychains" name entries that the records read
\* from the files hold
ReplychainsIds ==
    {rec.key.key_prefix.database_id :
        rec \in {x \in UNION {Entries(f.recs) : f \in Entries(ScannedFiles)} : IsNamesKey(x.key)}}

\* C23: the first scan collects the database ids of the object store named
\* "replychains" (name entries with object_store_id 0 and index_id 0); the
\* second scan outputs an entry only if its database id is one of them and
\* its index id is 1.  So every output entry has index_id 1 and a database
\* id found by the first scan, no entry is output before the first scan has
\* read all the files, and the output is the empty list when the first scan
\* finds no id.
C23_TwoPhase ==
    /\ database_ids \subseteq ReplychainsIds
    /\ \A entry \in Entries(records) \cup Entries(output_json) :
          entry.index_id = 1 /\ entry.database_id \in database_ids
    /\ records # <<>> => (scan.step \in {"data", "done", "crashed"}
                          /\ database_ids = ReplychainsIds)
    /\ scan.step = "names" => output_json = <<>>
    /\ (scan.step = "done" /\ database_ids = {}) => output_json = <<>>

\* a folder of two files was read to the end: the entry of database 1 at
\* index 1 is in the first file, the name entry that gives database 1 to
\* "replychains" only in the second, and the entry is the output
C23_Witness ==
    /\ scan.step = "done" /\ leveldb.is_dir /\ Len(leveldb.files) = 2
    /\ leveldb.files[1].recs = <<DbRecord(20, Null, KeyPrefix(1, 1, 1), TRUE),
                                 DbRecord(21, Null, KeyPrefix(1, 1, 2), TRUE)>>
    /\ leveldb.files[2].recs = <<DbRecord(22, Null, KeyPrefix(2, 1, 1), TRUE),
                                 DbRecord(10, Str("replychains"), KeyPrefix(1, 0, 0), TRUE)>>
    /\ database_ids = {1}
    /\ output_json = <<[offset |-> 20, database_id |-> 1, object_store_id |-> 1,
                        index_id |-> 1]>>

\* the kinds of artifact the message-like records give rise to
MessageDerivedKinds ==
    {"TSK_TEAMS_MESSAGE", "TSK_TEAMS_ATTACHMENT", "TSK_TEAMS_MENTION", "TSK_TEAMS_REACTION",
     "TSK_TEAMS_CALLLOG_CONV", "TSK_TEAMS_CALLLOG_MSG", "TSK_TEAMS_EVENTCALL"}

\* the conversation id the raw record rec of file d carries
ConversationOf(d, rec) ==
    Get[Get[Get[Library[d].records[rec], "value", EmptyObj], "value", EmptyObj],
        "conversationId", Null]

\* what the tenant map holds for a conversation before the step, "" if nothing
MapEntryOrEmpty(conversation_id) ==
    IF conversation_id \in DOMAIN conversation_tenant_map
    THEN conversation_tenant_map[conversation_id]
    ELSE Str("")

\* the artifacts the step has added to the blackboard
AddedArtifacts == {artifacts'[i] : i \in (Len(artifacts) + 1)..Len(artifacts')}

\* the step handles a record of a message file
MessageStep == InRecords("other") /\ Len(handled') > Len(handled)

====
